---------------------------- MODULE Spec2Model ----------------------------
(***************************************************************************)
(* A model of the Bluetooth HID bridge of terminaleyes: the HID report      *)
(* codec (raspi/hid_codes.py) and the BluetoothHidServer state machine      *)
(* (raspi/bt_hid.py) with its control-channel reader task, its keyboard and *)
(* mouse send operations and its lifecycle, as run by one asyncio event     *)
(* loop.  A step of the model is what the event loop runs between two       *)
(* suspension points of a coroutine; blocking socket calls run in executor  *)
(* threads and complete in later steps.                                     *)
(***************************************************************************)
EXTENDS Integers, Sequences, FiniteSets, TLC

(***************************************************************************)
(* Bounds of the model.                                                     *)
(***************************************************************************)
\* accepted connections (wait_for_connection calls that reach an accept)
MaxConns == 1
\* connections accepted one after another by the REST bridge's accept loop
MaxPeers == 2
\* slots for send operations in progress at the same time
MaxOps == 2
\* characters of a send_text argument
MaxTextLen == 2
\* names in the list given to modifiers_to_bitmask
MaxMods == 2
\* file descriptors the process can hold open
MaxFds == 2

(***************************************************************************)
(* hid_codes.py: modifier bits and the three tables.                        *)
(***************************************************************************)
\* The grave accent (U+0060) cannot be written inside a TLA+ string literal:
\* this one-character string stands for it.
GRAVE == "<grave>"

MODIFIER_NONE == 0
MODIFIER_LEFT_CTRL == 1
MODIFIER_LEFT_SHIFT == 2
MODIFIER_LEFT_ALT == 4
MODIFIER_LEFT_META == 8
MODIFIER_RIGHT_CTRL == 16
MODIFIER_RIGHT_SHIFT == 32
MODIFIER_RIGHT_ALT == 64
MODIFIER_RIGHT_META == 128

MODIFIER_MAP ==
    ("ctrl" :> MODIFIER_LEFT_CTRL) @@ ("left_ctrl" :> MODIFIER_LEFT_CTRL) @@ ("right_ctrl" :> MODIFIER_RIGHT_CTRL) @@ ("shift" :> MODIFIER_LEFT_SHIFT)
    @@ ("left_shift" :> MODIFIER_LEFT_SHIFT) @@ ("right_shift" :> MODIFIER_RIGHT_SHIFT) @@ ("alt" :> MODIFIER_LEFT_ALT) @@ ("left_alt" :> MODIFIER_LEFT_ALT)
    @@ ("right_alt" :> MODIFIER_RIGHT_ALT) @@ ("meta" :> MODIFIER_LEFT_META) @@ ("super" :> MODIFIER_LEFT_META) @@ ("win" :> MODIFIER_LEFT_META)
    @@ ("left_meta" :> MODIFIER_LEFT_META) @@ ("right_meta" :> MODIFIER_RIGHT_META)


KEY_CODES ==
    ("a" :> 4) @@ ("b" :> 5) @@ ("c" :> 6) @@ ("d" :> 7)
    @@ ("e" :> 8) @@ ("f" :> 9) @@ ("g" :> 10) @@ ("h" :> 11)
    @@ ("i" :> 12) @@ ("j" :> 13) @@ ("k" :> 14) @@ ("l" :> 15)
    @@ ("m" :> 16) @@ ("n" :> 17) @@ ("o" :> 18) @@ ("p" :> 19)
    @@ ("q" :> 20) @@ ("r" :> 21) @@ ("s" :> 22) @@ ("t" :> 23)
    @@ ("u" :> 24) @@ ("v" :> 25) @@ ("w" :> 26) @@ ("x" :> 27)
    @@ ("y" :> 28) @@ ("z" :> 29) @@ ("1" :> 30) @@ ("2" :> 31)
    @@ ("3" :> 32) @@ ("4" :> 33) @@ ("5" :> 34) @@ ("6" :> 35)
    @@ ("7" :> 36) @@ ("8" :> 37) @@ ("9" :> 38) @@ ("0" :> 39)
    @@ ("Enter" :> 40) @@ ("Return" :> 40) @@ ("Escape" :> 41) @@ ("Esc" :> 41)
    @@ ("Backspace" :> 42) @@ ("Tab" :> 43) @@ ("Space" :> 44) @@ (" " :> 44)
    @@ ("-" :> 45) @@ ("=" :> 46) @@ ("[" :> 47) @@ ("]" :> 48)
    @@ ("\\" :> 49) @@ (";" :> 51) @@ ("'" :> 52) @@ (GRAVE :> 53)
    @@ ("," :> 54) @@ ("." :> 55) @@ ("/" :> 56) @@ ("CapsLock" :> 57)
    @@ ("F1" :> 58) @@ ("F2" :> 59) @@ ("F3" :> 60) @@ ("F4" :> 61)
    @@ ("F5" :> 62) @@ ("F6" :> 63) @@ ("F7" :> 64) @@ ("F8" :> 65)
    @@ ("F9" :> 66) @@ ("F10" :> 67) @@ ("F11" :> 68) @@ ("F12" :> 69)
    @@ ("PrintScreen" :> 70) @@ ("ScrollLock" :> 71) @@ ("Pause" :> 72) @@ ("Insert" :> 73)
    @@ ("Home" :> 74) @@ ("PageUp" :> 75) @@ ("Delete" :> 76) @@ ("End" :> 77)
    @@ ("PageDown" :> 78) @@ ("Right" :> 79) @@ ("Left" :> 80) @@ ("Down" :> 81)
    @@ ("Up" :> 82)

\* SHIFT_CHARS with a base character that KEY_CODES does not have
SHIFT_CHARSDangling ==
    ("!" :> "1") @@ ("@" :> "2") @@ ("#" :> "3") @@ ("$" :> "4")
    @@ ("%" :> "5") @@ ("^" :> "6") @@ ("&" :> "7") @@ ("*" :> "8")
    @@ ("(" :> "9") @@ (")" :> "0") @@ ("_" :> "-") @@ ("+" :> "=")
    @@ ("{" :> "[") @@ ("}" :> "]") @@ ("|" :> "\\") @@ (":" :> ";")
    @@ ("\"" :> "'") @@ ("~" :> "grave") @@ ("<" :> ",") @@ (">" :> ".")
    @@ ("?" :> "/") @@ ("A" :> "a") @@ ("B" :> "b") @@ ("C" :> "c")
    @@ ("D" :> "d") @@ ("E" :> "e") @@ ("F" :> "f") @@ ("G" :> "g")
    @@ ("H" :> "h") @@ ("I" :> "i") @@ ("J" :> "j") @@ ("K" :> "k")
    @@ ("L" :> "l") @@ ("M" :> "m") @@ ("N" :> "n") @@ ("O" :> "o")
    @@ ("P" :> "p") @@ ("Q" :> "q") @@ ("R" :> "r") @@ ("S" :> "s")
    @@ ("T" :> "t") @@ ("U" :> "u") @@ ("V" :> "v") @@ ("W" :> "w")
    @@ ("X" :> "x") @@ ("Y" :> "y") @@ ("Z" :> "z")

SHIFT_CHARS ==
    ("!" :> "1") @@ ("@" :> "2") @@ ("#" :> "3") @@ ("$" :> "4")
    @@ ("%" :> "5") @@ ("^" :> "6") @@ ("&" :> "7") @@ ("*" :> "8")
    @@ ("(" :> "9") @@ (")" :> "0") @@ ("_" :> "-") @@ ("+" :> "=")
    @@ ("{" :> "[") @@ ("}" :> "]") @@ ("|" :> "\\") @@ (":" :> ";")
    @@ ("\"" :> "'") @@ ("~" :> GRAVE) @@ ("<" :> ",") @@ (">" :> ".")
    @@ ("?" :> "/") @@ ("A" :> "a") @@ ("B" :> "b") @@ ("C" :> "c")
    @@ ("D" :> "d") @@ ("E" :> "e") @@ ("F" :> "f") @@ ("G" :> "g")
    @@ ("H" :> "h") @@ ("I" :> "i") @@ ("J" :> "j") @@ ("K" :> "k")
    @@ ("L" :> "l") @@ ("M" :> "m") @@ ("N" :> "n") @@ ("O" :> "o")
    @@ ("P" :> "p") @@ ("Q" :> "q") @@ ("R" :> "r") @@ ("S" :> "s")
    @@ ("T" :> "t") @@ ("U" :> "u") @@ ("V" :> "v") @@ ("W" :> "w")
    @@ ("X" :> "x") @@ ("Y" :> "y") @@ ("Z" :> "z")


(***************************************************************************)
(* Python built-ins on the strings the model uses.  A key, a modifier or a  *)
(* button name is a TLA+ string; a text is a sequence of one-character      *)
(* strings.                                                                 *)
(***************************************************************************)
\* one-character strings without any HID mapping (control characters)
UnmappedChars == {"\t", "\n"}

\* every one-character string of the model: len(s) == 1
SingleChars ==
    {k \in DOMAIN KEY_CODES : k \notin
        {"Enter", "Return", "Escape", "Esc", "Backspace", "Tab", "Space",
         "CapsLock", "F1", "F2", "F3", "F4", "F5", "F6", "F7", "F8", "F9",
         "F10", "F11", "F12", "PrintScreen", "ScrollLock", "Pause", "Insert",
         "Home", "PageUp", "Delete", "End", "PageDown", "Right", "Left",
         "Down", "Up"}}
    \cup DOMAIN SHIFT_CHARS \cup UnmappedChars

\* len(s) as far as the code reads it: 1, or not 1
StrLen(s) == IF s \in SingleChars THEN 1 ELSE IF s = "" THEN 0 ELSE 2

LowerTable ==
    ("A" :> "a") @@ ("B" :> "b") @@ ("C" :> "c") @@ ("D" :> "d") @@ ("E" :> "e") @@ ("F" :> "f")
    @@ ("G" :> "g") @@ ("H" :> "h") @@ ("I" :> "i") @@ ("J" :> "j") @@ ("K" :> "k") @@ ("L" :> "l")
    @@ ("M" :> "m") @@ ("N" :> "n") @@ ("O" :> "o") @@ ("P" :> "p") @@ ("Q" :> "q") @@ ("R" :> "r")
    @@ ("S" :> "s") @@ ("T" :> "t") @@ ("U" :> "u") @@ ("V" :> "v") @@ ("W" :> "w") @@ ("X" :> "x")
    @@ ("Y" :> "y") @@ ("Z" :> "z")
    @@ ("Ctrl" :> "ctrl") @@ ("CTRL" :> "ctrl") @@ ("Shift" :> "shift") @@ ("SHIFT" :> "shift") @@ ("Alt" :> "alt") @@ ("Meta" :> "meta")
    @@ ("Banana" :> "banana") @@ ("Left" :> "left") @@ ("LEFT" :> "left") @@ ("Right" :> "right") @@ ("Middle" :> "middle")
    @@ ("Error" :> "error") @@ ("AlreadyExists" :> "alreadyexists") @@ ("NotPermitted" :> "notpermitted") @@ ("Already" :> "already")
    @@ ("Exists" :> "exists") @@ ("UUID" :> "uuid") @@ ("Failed" :> "failed") @@ ("Profile" :> "profile") @@ ("Registered" :> "registered")
    @@ ("InvalidArguments" :> "invalidarguments") @@ ("Invalid" :> "invalid") @@ ("DBus" :> "dbus") @@ ("ServiceUnknown" :> "serviceunknown")
    @@ ("AccessDenied" :> "accessdenied") @@ ("Rejected" :> "rejected")

\* str.lower()
Lower(s) == IF s \in DOMAIN LowerTable THEN LowerTable[s] ELSE s

\* a | b on bytes
RECURSIVE BitOr(_, _)
BitOr(a, b) ==
    IF a = 0 THEN b
    ELSE IF b = 0 THEN a
    ELSE (IF a % 2 = 1 \/ b % 2 = 1 THEN 1 ELSE 0) + 2 * BitOr(a \div 2, b \div 2)

\* a & b on bytes
RECURSIVE BitAnd(_, _)
BitAnd(a, b) ==
    IF a = 0 \/ b = 0 THEN 0
    ELSE (IF a % 2 = 1 /\ b % 2 = 1 THEN 1 ELSE 0) + 2 * BitAnd(a \div 2, b \div 2)

(***************************************************************************)
(* hid_codes.py: the three conversions.  A result is a record; err is ""    *)
(* for a normal return and the exception's class for a raise.               *)
(***************************************************************************)
Hid(mod, code) == [err |-> "", mod |-> mod, code |-> code]
Raise(e) == [err |-> e, mod |-> 0, code |-> 0]

\* char_to_hid that looks the character up in lower case
char_to_hidLowered(char) ==
    IF Lower(char) \in DOMAIN KEY_CODES
    THEN Hid(MODIFIER_NONE, KEY_CODES[Lower(char)])
    ELSE IF char \in DOMAIN SHIFT_CHARS /\ SHIFT_CHARS[char] \in DOMAIN KEY_CODES
    THEN Hid(MODIFIER_LEFT_SHIFT, KEY_CODES[SHIFT_CHARS[char]])
    ELSE Raise("ValueError")

char_to_hid(char) ==
    IF char \in DOMAIN KEY_CODES
    THEN Hid(MODIFIER_NONE, KEY_CODES[char])
    ELSE IF char \in DOMAIN SHIFT_CHARS /\ SHIFT_CHARS[char] \in DOMAIN KEY_CODES
    THEN Hid(MODIFIER_LEFT_SHIFT, KEY_CODES[SHIFT_CHARS[char]])
    ELSE Raise("ValueError")

\* key_name_to_hid with scan code 0 for a name it does not know
key_name_to_hidOrNone(key) ==
    IF key \in DOMAIN KEY_CODES
    THEN Hid(MODIFIER_NONE, KEY_CODES[key])
    ELSE IF StrLen(key) = 1 /\ Lower(key) \in DOMAIN KEY_CODES
    THEN Hid(MODIFIER_NONE, KEY_CODES[Lower(key)])
    ELSE Hid(MODIFIER_NONE, 0)

\* key_name_to_hid with the exact lookup only
key_name_to_hidExact(key) ==
    IF key \in DOMAIN KEY_CODES
    THEN Hid(MODIFIER_NONE, KEY_CODES[key])
    ELSE Raise("ValueError")

\* mod is unused in the result (a scan code only)
key_name_to_hid(key) ==
    IF key \in DOMAIN KEY_CODES
    THEN Hid(MODIFIER_NONE, KEY_CODES[key])
    ELSE IF StrLen(key) = 1 /\ Lower(key) \in DOMAIN KEY_CODES
    THEN Hid(MODIFIER_NONE, KEY_CODES[Lower(key)])
    ELSE Raise("ValueError")

RECURSIVE ModifierLoop(_, _, _)
ModifierLoop(modifiers, i, bitmask) ==
    IF i > Len(modifiers) THEN Hid(bitmask, 0)
    ELSE IF Lower(modifiers[i]) \notin DOMAIN MODIFIER_MAP THEN Raise("ValueError")
    ELSE ModifierLoop(modifiers, i + 1, BitOr(bitmask, MODIFIER_MAP[Lower(modifiers[i])]))

\* modifiers_to_bitmask that passes over the names it does not know
RECURSIVE ModifierLoopKnownOnly(_, _, _)
ModifierLoopKnownOnly(modifiers, i, bitmask) ==
    IF i > Len(modifiers) THEN Hid(bitmask, 0)
    ELSE IF Lower(modifiers[i]) \notin DOMAIN MODIFIER_MAP
    THEN ModifierLoopKnownOnly(modifiers, i + 1, bitmask)
    ELSE ModifierLoopKnownOnly(modifiers, i + 1,
                               BitOr(bitmask, MODIFIER_MAP[Lower(modifiers[i])]))

modifiers_to_bitmaskKnownOnly(modifiers) ==
    ModifierLoopKnownOnly(modifiers, 1, MODIFIER_NONE)

\* code is unused in the result (a bitmask only)
modifiers_to_bitmask(modifiers) == ModifierLoop(modifiers, 1, MODIFIER_NONE)

(***************************************************************************)
(* bt_hid.py: constants and report frames.  A frame is the sequence of the  *)
(* bytes handed to the interrupt socket's send().                           *)
(***************************************************************************)
REPORT_ID_KEYBOARD == 1
REPORT_ID_MOUSE == 2
\* 0xA1, HIDP DATA|INPUT
HIDP_DATA_INPUT == 161

\* HIDP transaction types (high nibble of the first byte)
HIDP_HID_CONTROL == 16
HIDP_SET_REPORT == 80
HIDP_GET_PROTOCOL == 96
HIDP_SET_PROTOCOL == 112
HANDSHAKE_SUCCESS == 0
\* the GET_PROTOCOL answer: Report Protocol
PROTOCOL_REPORT == 1

MouseButton == [LEFT |-> 1, RIGHT |-> 2, MIDDLE |-> 4]
BUTTON_MAP ==
    ("left" :> MouseButton.LEFT) @@ ("right" :> MouseButton.RIGHT)
    @@ ("middle" :> MouseButton.MIDDLE)

\* the 8-byte keyboard release report, bytes(8)
KB_RELEASE == <<0, 0, 0, 0, 0, 0, 0, 0>>

Min(a, b) == IF a < b THEN a ELSE b
Max(a, b) == IF a > b THEN a ELSE b

\* clamp to the whole range of a signed byte
clampToByte(value) == Max(-128, Min(127, value))

clamp(value) == Max(-127, Min(127, value))

\* struct.pack format "b": a signed byte in two's complement
PackSigned(v) == IF v < 0 THEN v + 256 ELSE v

\* KeyboardReport without the reserved byte
KeyboardReportNoReserved(modifier, scan_code) ==
    <<HIDP_DATA_INPUT, REPORT_ID_KEYBOARD, modifier, scan_code, 0, 0, 0, 0, 0>>

\* _send_keyboard_report: the frame it builds
KeyboardReport(modifier, scan_code) ==
    <<HIDP_DATA_INPUT, REPORT_ID_KEYBOARD, modifier, 0, scan_code, 0, 0, 0, 0, 0>>

\* _release_keyboard: the frame it builds
ReleaseReport == <<HIDP_DATA_INPUT, REPORT_ID_KEYBOARD>> \o KB_RELEASE

\* _send_mouse_report: the frame it builds
MouseReport(buttons, x, y, wheel) ==
    <<HIDP_DATA_INPUT, REPORT_ID_MOUSE, buttons,
      PackSigned(clamp(x)), PackSigned(clamp(y)), PackSigned(clamp(wheel))>>

(***************************************************************************)
(* The control-channel reader: the reply to one message, from its first     *)
(* byte.  NoReply stands for "nothing is sent".                             *)
(***************************************************************************)
NoReply == -1

\* ControlReply with GET_PROTOCOL answered like the handshakes
ControlReplyHandshakeOnly(byte0) ==
    LET msg_type == (byte0 \div 16) * 16
    IN  IF msg_type \in {HIDP_SET_PROTOCOL, HIDP_GET_PROTOCOL, HIDP_SET_REPORT}
        THEN HANDSHAKE_SUCCESS
        ELSE NoReply

ControlReply(byte0) ==
    LET msg_type == (byte0 \div 16) * 16
    IN  IF msg_type = HIDP_SET_PROTOCOL THEN HANDSHAKE_SUCCESS
        ELSE IF msg_type = HIDP_GET_PROTOCOL THEN PROTOCOL_REPORT
        ELSE IF msg_type = HIDP_SET_REPORT THEN HANDSHAKE_SUCCESS
        ELSE NoReply

(***************************************************************************)
(* State.                                                                   *)
(***************************************************************************)
VARIABLES
    \* BluetoothHidServer fields.  A listener is "none" (None), "open" (a
    \* socket that does not listen yet) or "listening"; a peer socket is 0
    \* (None) or the number of the wait_for_connection() call that accepted
    \* it; _control_task is 0 (None) or the number of the reader task.
    control_sock, interrupt_sock, control_client, interrupt_client,
    connected, mouse_buttons, control_task,
    \* peer sockets closed by stop(): pairs <<number, "control"/"interrupt">>
    closed,
    \* the caller of wait_for_connection(), suspended in an accept or not
    waiter,
    \* number of wait_for_connection() calls that reached the first accept
    nconn,
    \* the control-channel reader tasks, by number.  sock is the task's
    \* local; msg, proto and replies are history: the first byte of the
    \* last message read, the parameter of the last SET_PROTOCOL read, and
    \* the bytes written to the control channel since msg was read
    reader,
    \* the send operations in progress, by slot
    ops,
    \* history.  lastStop: the stop() calls made in a row since any other
    \* operation acted (run), and of the last of them the close() calls in
    \* order (log) and whether it raised; waitOut: how the last
    \* wait_for_connection() ended; accepted: the accepts completed per
    \* call, in order; nTasks: create_task calls; nWaitOk: normal returns
    \* of wait_for_connection()
    lastStop, waitOut, accepted, nTasks, nWaitOk,
    \* the call of a function of hid_codes.py that is being made: the
    \* function, its argument and, once it has returned or raised, its
    \* result
    call,
    \* the Bluetooth daemon as register_sdp_profile() and
    \* configure_bluetooth_adapter() see it: whether the HID profile is
    \* registered, the adapter properties that were set, and the last call
    \* of one of the two functions with its D-Bus calls and its outcome
    bluez,
    \* a HidWriter: _fd (0 for None), the descriptors that are open in the
    \* process, and the call each coroutine that uses the writer is in, by
    \* the number of the coroutine
    hidw,
    \* the REST bridge: how far its lifespan is ("new", "keyboard" and
    \* "mouse" while it opens the writers, "serving" from its yield on,
    \* "mouse_close" and "keyboard_close" while it closes them, "stopped"
    \* at its end), the enable_bt_hid it was created with, app.state.bt_hid
    \* ("none" for None, "server" for the BluetoothHidServer), whether the
    \* mouse writer is open, the USB request being served and the last
    \* response
    app

srv == <<control_sock, interrupt_sock, control_client, interrupt_client,
         connected, mouse_buttons, control_task>>
hist == <<lastStop, waitOut, accepted, nTasks, nWaitOk>>
lib == <<call, bluez, hidw, app>>
vars == <<srv, closed, waiter, nconn, reader, ops, hist, lib>>

\* the is_connected property, and the bt_hid_connected field of the /health
\* response of a service whose Bluetooth server was created
is_connected == connected
bt_hid_connected == is_connected

Conns == 1 .. Max(MaxConns, MaxPeers)
Slots == 1 .. MaxOps

NoCall == [fn |-> "none", arg |-> "", out |-> Raise("")]

\* no D-Bus error
NoError == [name |-> "none", text |-> <<>>]

NoDbusCall == [fn |-> "none", env |-> "ok", reply |-> NoError, fails |-> {},
               sets |-> <<>>, out |-> "none"]

\* a coroutine of the HidWriter that is not in a call.  fd is the local
\* fd a call hands to the executor (for os.open: the descriptor it
\* returned), job the state of the call it handed to the executor
\* ("queued", then, once the thread has run it, "returned", "raised" for an
\* OSError or "type_error" for the TypeError of os.close(None)), wrote
\* whether its os.write was done, out the exception the call ended with
NoHidCall == [kind |-> "none", pc |-> "idle", fd |-> 0, report |-> <<>>,
              job |-> "none", wrote |-> FALSE, out |-> ""]

\* the coroutines that use one HidWriter at the same time
HidTasks == 0 .. 2

\* no response sent yet
NoResponse ==
    [path |-> "", status |-> 0, hid_open |-> FALSE, mouse_hid_open |-> FALSE,
     bt_hid_connected |-> FALSE]

\* no USB request is being served.  Of a request: its path and body, the
\* character send_text is at, and where its handler is suspended ("write"
\* in the os.write of a press (phase 1) or a release (phase 2), "sleep"
\* between the two, "gap" in send_text's sleep after a character, "mouse"
\* in an os.write of the mouse writer); reports are the keyboard reports
\* written for it and mouse_reports the number of mouse reports
NoUsb ==
    [path |-> "", args |-> <<>>, i |-> 0, pc |-> "idle", phase |-> 0,
     reports |-> <<>>, mouse_reports |-> 0]

IdleWaiter == [pc |-> "idle", id |-> 0, cap |-> "none", loop |-> FALSE]

NoReader ==
    [pc |-> "none", sock |-> 0, cancel |-> FALSE, msg |-> -1, proto |-> -1,
     replies |-> <<>>, pend |-> NoReply, out |-> ""]

NoOp ==
    [kind |-> "none", pc |-> "idle", args |-> <<>>, i |-> 0, btn |-> 0,
     phase |-> 0, pend |-> <<>>, sock |-> 0, frames |-> <<>>, err |-> ""]

NoStop == [run |-> 0, log |-> <<>>, raised |-> FALSE]

\* __init__
Init ==
    /\ control_sock = "none"
    /\ interrupt_sock = "none"
    /\ control_client = 0
    /\ interrupt_client = 0
    /\ connected = FALSE
    /\ mouse_buttons = 0
    /\ control_task = 0
    /\ closed = {}
    /\ waiter = IdleWaiter
    /\ nconn = 0
    /\ reader = [k \in Conns |-> NoReader]
    /\ ops = [s \in Slots |-> NoOp]
    /\ lastStop = NoStop
    /\ waitOut = "none"
    /\ accepted = [k \in Conns |-> <<>>]
    /\ nTasks = 0
    /\ nWaitOk = 0
    /\ call = NoCall
    /\ bluez = [registered |-> FALSE, adapter |-> <<>>, last |-> NoDbusCall]
    /\ hidw = [fd |-> 0, osfds |-> {}, co |-> [t \in HidTasks |-> NoHidCall]]
    /\ app = [pc |-> "new", enable_bt_hid |-> FALSE, bt_hid |-> "none",
              mouse_open |-> FALSE, usb |-> NoUsb, resp |-> NoResponse]

(***************************************************************************)
(* Lifecycle: start(), stop(), wait_for_connection().                       *)
(***************************************************************************)
\* where start() can end: normally, or with BtHidError after an OSError
\* from the first socket(), the second socket(), one of setsockopt / bind /
\* the first listen(), or the second listen()
StartOutcomes == {"ok", "socket1", "socket2", "bind", "listen2"}

\* the listening handles when start() has ended: lines 323-339
StartSocks(outcome) ==
    [control |-> CASE outcome = "socket1" -> control_sock
                   [] outcome \in {"socket2", "bind"} -> "open"
                   [] OTHER -> "listening",
     interrupt |-> CASE outcome \in {"socket1", "socket2"} -> interrupt_sock
                     [] outcome \in {"bind", "listen2"} -> "open"
                     [] OTHER -> "listening"]

start(outcome) ==
    /\ control_sock' = StartSocks(outcome).control
    /\ interrupt_sock' = StartSocks(outcome).interrupt
    /\ lastStop' = NoStop
    /\ UNCHANGED <<control_client, interrupt_client, connected, mouse_buttons,
                   control_task, closed, waiter, nconn, reader, ops,
                   waitOut, accepted, nTasks, nWaitOk, lib>>

\* StopOrder with the listeners closed before the peer sockets
StopOrderListenersFirst ==
    <<"interrupt_sock", "control_sock", "interrupt_client", "control_client">>

\* the handles stop() walks over, in its order
StopOrder == <<"interrupt_client", "control_client", "interrupt_sock", "control_sock">>

Present(h) ==
    CASE h = "interrupt_client" -> interrupt_client # 0
      [] h = "control_client" -> control_client # 0
      [] h = "interrupt_sock" -> interrupt_sock # "none"
      [] h = "control_sock" -> control_sock # "none"

\* CloseLoop without the except clause: the first close() that raises
\* leaves the loop
RECURSIVE CloseLoopUncaught(_, _, _, _)
CloseLoopUncaught(order, errs, i, log) ==
    IF i > Len(order) THEN [log |-> log, raised |-> FALSE]
    ELSE IF Present(order[i])
         THEN IF order[i] \in errs
              THEN [log |-> Append(log, order[i]), raised |-> TRUE]
              ELSE CloseLoopUncaught(order, errs, i + 1, Append(log, order[i]))
         ELSE CloseLoopUncaught(order, errs, i + 1, log)

\* stop()'s loop over the handles from position i on: the close() calls made
\* so far and whether an exception left the loop.  errs are the handles
\* whose close() raises OSError, which the loop catches.
RECURSIVE CloseLoop(_, _, _, _)
CloseLoop(order, errs, i, log) ==
    IF i > Len(order) THEN [log |-> log, raised |-> FALSE]
    ELSE IF Present(order[i])
         THEN CloseLoop(order, errs, i + 1, Append(log, order[i]))
         ELSE CloseLoop(order, errs, i + 1, log)

CloseAll(errs) == CloseLoop(StopOrder, errs, 1, <<>>)

\* Task.cancel(): a task that is done is left alone
Cancel(r) == IF r.pc \in {"none", "done"} THEN r ELSE [r EXCEPT !.cancel = TRUE]

\* what stop() does to the server, lines 539-560; it has no await
StopServer(errs) ==
    LET c == CloseAll(errs)
        has(h) == \E i \in 1 .. Len(c.log) : c.log[i] = h
    IN  /\ connected' = FALSE
        /\ reader' = IF control_task # 0
                     THEN [reader EXCEPT ![control_task] = Cancel(@)]
                     ELSE reader
        /\ control_task' = 0
        /\ closed' = closed
               \cup (IF has("interrupt_client") THEN {<<interrupt_client, "interrupt">>} ELSE {})
               \cup (IF has("control_client") THEN {<<control_client, "control">>} ELSE {})
        /\ lastStop' = [run |-> IF lastStop.run < 2 THEN lastStop.run + 1 ELSE 2,
                         log |-> c.log, raised |-> c.raised]
        /\ IF c.raised
           THEN UNCHANGED <<interrupt_client, control_client, interrupt_sock, control_sock>>
           ELSE /\ interrupt_client' = 0
                /\ control_client' = 0
                /\ interrupt_sock' = "none"
                /\ control_sock' = "none"
        /\ UNCHANGED <<mouse_buttons, nconn, ops, waitOut, accepted, nTasks, nWaitOk>>

stop(errs) ==
    /\ StopServer(errs)
    /\ UNCHANGED <<waiter, lib>>

\* the first step of a reader task is queued by create_task before any
\* executor completion can be delivered to the event loop
NoTaskQueued == \A k \in Conns : reader[k].pc # "created"

\* wait_for_connection() up to its first await, for a caller that makes
\* at most limit calls that reach an accept
WaitForConnection(limit, loop) ==
    /\ waiter.pc = "idle"
    /\ IF control_sock = "none" \/ interrupt_sock = "none"
       THEN /\ waitOut' = "BtHidError"
            /\ UNCHANGED <<waiter, nconn>>
       ELSE /\ nconn < limit
            /\ nconn' = nconn + 1
            /\ waiter' = [pc |-> "accept_control", id |-> nconn + 1,
                           cap |-> control_sock, loop |-> loop]
            /\ waitOut' = "pending"
    /\ lastStop' = NoStop
    /\ UNCHANGED <<srv, closed, reader, ops, accepted,
                   nTasks, nWaitOk, lib>>

\* AcceptControl with the connection marked as up after the first accept
AcceptControlConnects ==
    /\ waiter.pc = "accept_control"
    /\ waiter.cap = "listening"
    /\ waiter.id \in Conns
    /\ NoTaskQueued
    /\ control_client' = waiter.id
    /\ accepted' = [accepted EXCEPT ![waiter.id] = Append(@, "control")]
    /\ connected' = TRUE
    /\ IF interrupt_sock = "none"
       THEN /\ waiter' = IdleWaiter
            /\ waitOut' = "AttributeError"
       ELSE /\ waiter' = [waiter EXCEPT !.pc = "accept_interrupt", !.cap = interrupt_sock]
            /\ UNCHANGED waitOut
    /\ lastStop' = NoStop
    /\ UNCHANGED <<control_sock, interrupt_sock, interrupt_client,
                   mouse_buttons, control_task, closed, nconn, reader, ops,
                   nTasks, nWaitOk, lib>>

wait_for_connection == WaitForConnection(MaxConns, FALSE)

\* the first step of the task that runs the REST bridge's
\* _accept_bt_loop: its first wait_for_connection() up to the first await.
\* The calls that follow are made in the step that ends the call before
\* (AcceptInterrupt); the loop ends with the first call that raises.
accept_bt_loop ==
    /\ waitOut = "none"
    /\ WaitForConnection(MaxPeers, TRUE)

\* the control accept() returned: lines 409-416
AcceptControl ==
    /\ waiter.pc = "accept_control"
    /\ waiter.cap = "listening"
    /\ waiter.id \in Conns
    /\ NoTaskQueued
    /\ control_client' = waiter.id
    /\ accepted' = [accepted EXCEPT ![waiter.id] = Append(@, "control")]
    /\ IF interrupt_sock = "none"
       THEN /\ waiter' = IdleWaiter
            /\ waitOut' = "AttributeError"
       ELSE /\ waiter' = [waiter EXCEPT !.pc = "accept_interrupt", !.cap = interrupt_sock]
            /\ UNCHANGED waitOut
    /\ lastStop' = NoStop
    /\ UNCHANGED <<control_sock, interrupt_sock, interrupt_client, connected,
                   mouse_buttons, control_task, closed, nconn, reader, ops,
                   nTasks, nWaitOk, lib>>

\* the interrupt accept() returned: lines 414-424; wait_for_connection()
\* returns, and when the bridge's loop made the call (server.py 162-169)
\* the loop calls it again in the same step, up to the first await.  The
\* hosts of the model are those of Conns: a call beyond them stays in its
\* accept.
AcceptInterrupt ==
    /\ waiter.pc = "accept_interrupt"
    /\ waiter.cap = "listening"
    /\ NoTaskQueued
    /\ interrupt_client' = waiter.id
    /\ accepted' = [accepted EXCEPT ![waiter.id] = Append(@, "interrupt")]
    /\ connected' = TRUE
    /\ control_task' = waiter.id
    /\ reader' = [reader EXCEPT ![waiter.id] = [NoReader EXCEPT !.pc = "created"]]
    /\ nTasks' = nTasks + 1
    /\ nWaitOk' = nWaitOk + 1
    /\ IF ~waiter.loop
       THEN /\ waitOut' = "ok"
            /\ waiter' = IdleWaiter
            /\ UNCHANGED nconn
       ELSE IF control_sock = "none" \/ interrupt_sock = "none"
       THEN /\ waitOut' = "BtHidError"
            /\ waiter' = IdleWaiter
            /\ UNCHANGED nconn
       ELSE /\ waitOut' = "pending"
            /\ nconn' = nconn + 1
            /\ waiter' = [pc |-> "accept_control", id |-> nconn + 1,
                           cap |-> control_sock, loop |-> TRUE]
    /\ lastStop' = NoStop
    /\ UNCHANGED <<control_sock, interrupt_sock, control_client, mouse_buttons,
                   closed, ops, lib>>

\* an accept() raised OSError in its executor thread
AcceptFail ==
    /\ waiter.pc \in {"accept_control", "accept_interrupt"}
    /\ NoTaskQueued
    /\ waiter' = IdleWaiter
    /\ waitOut' = "OSError"
    /\ lastStop' = NoStop
    /\ UNCHANGED <<srv, closed, nconn, reader, ops, accepted, nTasks, nWaitOk, lib>>

(***************************************************************************)
(* The control-channel reader task, _control_channel_loop.                  *)
(***************************************************************************)
\* first bytes of the control messages a host sends in the model:
\* 0x13 HID_CONTROL, 0x41 GET_REPORT, 0x52 SET_REPORT, 0x60 GET_PROTOCOL,
\* 0x70 SET_PROTOCOL(Boot), 0x71 SET_PROTOCOL(Report)
CtlBytes == {19, 65, 82, 96, 112, 113}

\* how the send() tried first by sock_sendall can end: the byte is written,
\* the socket is not writable yet (the task suspends), or OSError
SendResults == {"sent", "blocked", "error"}

\* the most messages a host has queued on the control socket when a step
\* of the reader runs
MaxBurst == 2

\* what one step of a reader reads: loop.sock_recv and loop.sock_sendall
\* try recv() and send() at once and suspend the task only when the call
\* would block, so one step handles every message that is queued and ends
\* where a call blocks or the loop is left.  A burst is the sequence of
\* messages the recv() calls of one step return, each with the result of
\* the send() of its reply ("sent" for a message that has no reply); only
\* a reply that is written lets the step read on.  The first and the last
\* message of a burst are any of bytes; in a burst of more than two, the
\* messages between them are HID_CONTROL or SET_PROTOCOL(Report), one
\* message without a reply and one with.
Bursts(bytes) ==
    LET Written == [b : bytes, res : {"sent"}]
        Between == [b : bytes \cap {19, 113}, res : {"sent"}]
        Runs == {<<>>} \cup
                UNION {{<<e>> \o mid : e \in Written, mid \in [1 .. m -> Between]} :
                           m \in 0 .. MaxBurst - 2}
        Last == {e \in [b : bytes, res : SendResults] :
                     ControlReply(e.b) = NoReply => e.res = "sent"}
    IN  {<<>>} \cup {Append(run, e) : run \in Runs, e \in Last}

\* the task ends: by return, by CancelledError, or by an exception; its
\* locals are gone
Finished(r, how) == [NoReader EXCEPT !.pc = "done", !.out = how]

\* where a step of the reader ends: the reader then, and how much of what
\* was queued (the messages q, and the close behind them when end holds) it
\* has not read
StepEnd(r, q, end) == [rd |-> r, unread |-> Len(q) + IF end THEN 1 ELSE 0]

RECURSIVE LoopHead(_, _, _)
RECURSIVE Handle(_, _, _, _)
RECURSIVE AfterReplyNotAwaited(_, _, _, _, _)
RECURSIVE AfterReply(_, _, _, _, _)

\* "while self._connected:" and the sock_recv it starts, lines 360-366, with
\* the messages q queued on the socket and, when end holds, the peer's
\* close (b"") or an OSError behind them: recv() returns the first message,
\* or ends the loop, or would block and the task is suspended
LoopHead(r, q, end) ==
    IF ~connected THEN StepEnd(Finished(r, "returned"), q, end)
    ELSE IF <<r.sock, "control">> \in closed THEN StepEnd(Finished(r, "returned"), q, end)
    ELSE IF q # <<>> THEN Handle(r, Head(q), Tail(q), end)
    ELSE IF end THEN StepEnd(Finished(r, "returned"), <<>>, FALSE)
    ELSE StepEnd([r EXCEPT !.pc = "recv"], <<>>, FALSE)

\* AfterReply with the reply not awaited: the loop goes on while the byte
\* is still to be written
AfterReplyNotAwaited(r, reply, res, q, end) ==
    CASE res = "sent" -> LoopHead([r EXCEPT !.replies = Append(@, reply)], q, end)
      [] res = "blocked" -> LoopHead([r EXCEPT !.pend = reply], q, end)
      [] OTHER -> StepEnd(Finished(r, "returned"), q, end)

\* the reader after sock_sendall was started for a reply: the byte is
\* written and the loop goes on, or the task is suspended in the write, or
\* OSError ends the task
AfterReply(r, reply, res, q, end) ==
    CASE res = "sent" -> LoopHead([r EXCEPT !.replies = Append(@, reply)], q, end)
      [] res = "blocked" -> StepEnd([r EXCEPT !.pc = "send", !.pend = reply], q, end)
      [] OTHER -> StepEnd(Finished(r, "returned"), q, end)

\* the reader after recv() returned the message e: lines 368-397, and the
\* loop after it
Handle(r, e, q, end) ==
    LET r1 == [r EXCEPT !.msg = e.b, !.replies = <<>>,
                        !.proto = IF (e.b \div 16) * 16 = HIDP_SET_PROTOCOL
                                  THEN e.b % 16 ELSE @]
    IN  IF ControlReply(e.b) = NoReply THEN LoopHead(r1, q, end)
        ELSE AfterReply(r1, ControlReply(e.b), e.res, q, end)

readerFrame ==
    UNCHANGED <<srv, closed, waiter, nconn, ops, hist, lib>>

\* the task's first step: lines 354-362 and the loop up to the first call
\* that blocks; q and end are what its recv() calls return
ReaderRun(k, q, end) ==
    /\ reader[k].pc = "created"
    /\ LET step ==
               IF reader[k].cancel THEN StepEnd(Finished(reader[k], "cancelled"), q, end)
               ELSE IF control_client = 0 THEN StepEnd(Finished(reader[k], "returned"), q, end)
               ELSE IF <<control_client, "control">> \in closed
                    THEN StepEnd(Finished(reader[k], "raised"), q, end)
               ELSE LoopHead([reader[k] EXCEPT !.sock = control_client], q, end)
       IN  /\ step.unread = 0
           /\ reader' = [reader EXCEPT ![k] = step.rd]
    /\ readerFrame

\* ReaderRecv on an event loop that the send() of an interrupt write
\* blocks: no message is read while a write is in flight
ReaderRecvLoopBlocked(k, q, end) ==
    /\ \A s \in Slots : ops[s].pc # "write"
    /\ reader[k].pc = "recv"
    /\ ~reader[k].cancel
    /\ <<reader[k].sock, "control">> \notin closed
    /\ q # <<>>
    /\ LET step == Handle(reader[k], Head(q), Tail(q), end)
       IN  /\ step.unread = 0
           /\ reader' = [reader EXCEPT ![k] = step.rd]
    /\ readerFrame

\* the suspended sock_recv returned a message, the first of q; the step
\* goes on with the messages queued behind it
ReaderRecv(k, q, end) ==
    /\ reader[k].pc = "recv"
    /\ ~reader[k].cancel
    /\ <<reader[k].sock, "control">> \notin closed
    /\ q # <<>>
    /\ LET step == Handle(reader[k], Head(q), Tail(q), end)
       IN  /\ step.unread = 0
           /\ reader' = [reader EXCEPT ![k] = step.rd]
    /\ readerFrame

\* ReaderRecvEnd that marks the connection as down
ReaderRecvEndDisconnects(k) ==
    /\ reader[k].pc = "recv"
    /\ ~reader[k].cancel
    /\ reader' = [reader EXCEPT ![k] = Finished(@, "returned")]
    /\ connected' = FALSE
    /\ UNCHANGED <<control_sock, interrupt_sock, control_client, interrupt_client,
                   mouse_buttons, control_task, closed, waiter, nconn, ops, hist, lib>>

\* the suspended sock_recv returned b"" (the peer closed the channel) or
\* raised OSError
ReaderRecvEnd(k) ==
    /\ reader[k].pc = "recv"
    /\ ~reader[k].cancel
    /\ reader' = [reader EXCEPT ![k] = Finished(@, "returned")]
    /\ readerFrame

\* a suspended sock_sendall finished: the byte is written and the loop goes
\* on with what is queued, or OSError
ReaderSendDone(k, res, q, end) ==
    /\ reader[k].pc = "send"
    /\ ~reader[k].cancel
    /\ res \in {"sent", "error"}
    /\ LET step == AfterReply([reader[k] EXCEPT !.pend = NoReply],
                              reader[k].pend, res, q, end)
       IN  /\ step.unread = 0
           /\ reader' = [reader EXCEPT ![k] = step.rd]
    /\ readerFrame

\* the CancelledError of Task.cancel() is thrown into the suspended task
ReaderCancelled(k) ==
    /\ reader[k].pc \in {"recv", "send"}
    /\ reader[k].cancel
    /\ reader' = [reader EXCEPT ![k] = Finished(@, "cancelled")]
    /\ readerFrame

(***************************************************************************)
(* Send operations.  An operation in progress occupies a slot; pc is        *)
(* "write" while its send() runs in the executor, "sleep" in the sleep      *)
(* between press and release, "gap" in send_text's sleep between            *)
(* characters, "done" when it has returned or raised (err names the         *)
(* exception).  frames are the frames its send() calls wrote.               *)
(***************************************************************************)
Done(o, err) == [o EXCEPT !.pc = "done", !.err = err, !.pend = <<>>, !.sock = 0]

\* _send_raw up to its await: lines 428-432
SendRaw(o, frame) ==
    IF interrupt_client = 0 THEN Done(o, "BtHidError")
    ELSE [o EXCEPT !.pc = "write", !.pend = frame, !.sock = interrupt_client]

\* a new operation takes the lowest free slot
FreeSlot(s) ==
    /\ ops[s].kind = "none"
    /\ \A t \in Slots : t < s => ops[t].kind # "none"

opFrame ==
    UNCHANGED <<control_sock, interrupt_sock, control_client, interrupt_client,
                control_task, closed, waiter, nconn, reader, waitOut, accepted, nTasks, nWaitOk, lib>>

\* send_keystroke: the (modifier, scan code) it taps, lines 464-470
KeystrokeHid(key) ==
    IF key \in DOMAIN SHIFT_CHARS THEN char_to_hid(key)
    ELSE IF StrLen(key) = 1 THEN char_to_hid(key)
    ELSE LET k == key_name_to_hid(key)
         IN  IF k.err # "" THEN k ELSE Hid(MODIFIER_NONE, k.code)

\* ComboHid without the shift of a shifted key
ComboHidNoShift(modifiers, key) ==
    LET m == modifiers_to_bitmask(modifiers)
    IN  IF m.err # "" THEN m
        ELSE IF key \in DOMAIN SHIFT_CHARS
        THEN LET k == key_name_to_hid(SHIFT_CHARS[key])
             IN  IF k.err # "" THEN k ELSE Hid(m.mod, k.code)
        ELSE LET k == key_name_to_hid(key)
             IN  IF k.err # "" THEN k ELSE Hid(m.mod, k.code)

\* send_key_combo: the (modifier, scan code) it taps, lines 476-482
ComboHid(modifiers, key) ==
    LET m == modifiers_to_bitmask(modifiers)
    IN  IF m.err # "" THEN m
        ELSE IF key \in DOMAIN SHIFT_CHARS
        THEN LET k == key_name_to_hid(SHIFT_CHARS[key])
             IN  IF k.err # "" THEN k
                 ELSE Hid(BitOr(m.mod, MODIFIER_LEFT_SHIFT), k.code)
        ELSE LET k == key_name_to_hid(key)
             IN  IF k.err # "" THEN k ELSE Hid(m.mod, k.code)

\* _tap_key up to its first await
TapKey(o, hid) ==
    IF hid.err # "" THEN Done(o, hid.err)
    ELSE SendRaw([o EXCEPT !.phase = 1], KeyboardReport(hid.mod, hid.code))

send_keystroke(s, key) ==
    /\ FreeSlot(s)
    /\ ops' = [ops EXCEPT ![s] =
           TapKey([NoOp EXCEPT !.kind = "keystroke", !.args = <<key>>],
                  KeystrokeHid(key))]
    /\ lastStop' = NoStop
    /\ UNCHANGED <<connected, mouse_buttons>>
    /\ opFrame

send_key_combo(s, modifiers, key) ==
    /\ FreeSlot(s)
    /\ ops' = [ops EXCEPT ![s] =
           TapKey([NoOp EXCEPT !.kind = "combo", !.args = <<modifiers, key>>],
                  ComboHid(modifiers, key))]
    /\ lastStop' = NoStop
    /\ UNCHANGED <<connected, mouse_buttons>>
    /\ opFrame

RECURSIVE AllMapped(_)
AllMapped(text) ==
    text = <<>> \/ (char_to_hid(Head(text)).err = "" /\ AllMapped(Tail(text)))

\* TextNext with the whole text validated before its first character is
\* typed
TextNextValidated(o) ==
    LET text == o.args[1]
        j == o.i + 1
    IN  IF ~AllMapped(text) THEN Done(o, "ValueError")
        ELSE IF j > Len(text) THEN Done(o, "")
        ELSE TapKey([o EXCEPT !.i = j], char_to_hid(text[j]))

\* send_text's loop from the character after position o.i
TextNext(o) ==
    LET text == o.args[1]
        j == o.i + 1
    IN  IF j > Len(text) THEN Done(o, "")
        ELSE TapKey([o EXCEPT !.i = j], char_to_hid(text[j]))

send_text(s, text) ==
    /\ FreeSlot(s)
    /\ ops' = [ops EXCEPT ![s] =
           TextNext([NoOp EXCEPT !.kind = "text", !.args = <<text>>])]
    /\ lastStop' = NoStop
    /\ UNCHANGED <<connected, mouse_buttons>>
    /\ opFrame

\* move with no button reported as held
moveButtonsReleased(s, x, y) ==
    /\ FreeSlot(s)
    /\ ops' = [ops EXCEPT ![s] =
           SendRaw([NoOp EXCEPT !.kind = "move", !.args = <<x, y>>],
                   MouseReport(0, x, y, 0))]
    /\ lastStop' = NoStop
    /\ UNCHANGED <<connected, mouse_buttons>>
    /\ opFrame

move(s, x, y) ==
    /\ FreeSlot(s)
    /\ ops' = [ops EXCEPT ![s] =
           SendRaw([NoOp EXCEPT !.kind = "move", !.args = <<x, y>>],
                   MouseReport(mouse_buttons, x, y, 0))]
    /\ lastStop' = NoStop
    /\ UNCHANGED <<connected, mouse_buttons>>
    /\ opFrame

\* x & ~b
BitClear(x, b) == x - BitAnd(x, b)

\* click that builds its press frame before it sets the bit
clickFrameBeforeSet(s, button) ==
    /\ FreeSlot(s)
    /\ LET o == [NoOp EXCEPT !.kind = "click", !.args = <<button>>]
       IN  IF Lower(button) \notin DOMAIN BUTTON_MAP
           THEN /\ ops' = [ops EXCEPT ![s] = Done(o, "ValueError")]
                /\ UNCHANGED mouse_buttons
           ELSE LET btn == BUTTON_MAP[Lower(button)]
                    held == BitOr(mouse_buttons, btn)
                IN  /\ mouse_buttons' = held
                    /\ ops' = [ops EXCEPT ![s] =
                           SendRaw([o EXCEPT !.btn = btn, !.phase = 1],
                                   MouseReport(mouse_buttons, 0, 0, 0))]
    /\ lastStop' = NoStop
    /\ UNCHANGED connected
    /\ opFrame

click(s, button) ==
    /\ FreeSlot(s)
    /\ LET o == [NoOp EXCEPT !.kind = "click", !.args = <<button>>]
       IN  IF Lower(button) \notin DOMAIN BUTTON_MAP
           THEN /\ ops' = [ops EXCEPT ![s] = Done(o, "ValueError")]
                /\ UNCHANGED mouse_buttons
           ELSE LET btn == BUTTON_MAP[Lower(button)]
                    held == BitOr(mouse_buttons, btn)
                IN  /\ mouse_buttons' = held
                    /\ ops' = [ops EXCEPT ![s] =
                           SendRaw([o EXCEPT !.btn = btn, !.phase = 1],
                                   MouseReport(held, 0, 0, 0))]
    /\ lastStop' = NoStop
    /\ UNCHANGED connected
    /\ opFrame

scroll(s, amount) ==
    /\ FreeSlot(s)
    /\ ops' = [ops EXCEPT ![s] =
           SendRaw([NoOp EXCEPT !.kind = "scroll", !.args = <<amount>>],
                   MouseReport(mouse_buttons, 0, 0, amount))]
    /\ lastStop' = NoStop
    /\ UNCHANGED <<connected, mouse_buttons>>
    /\ opFrame

\* AfterWrite with send_text going on to the next character after a press
AfterWriteNoRelease(o) ==
    CASE o.kind \in {"keystroke", "combo", "click"} /\ o.phase = 1 ->
             [o EXCEPT !.pc = "sleep"]
      [] o.kind = "text" -> [o EXCEPT !.pc = "gap"]
      [] OTHER -> Done(o, "")

\* where an operation goes when its write succeeded
AfterWrite(o) ==
    CASE o.kind \in {"keystroke", "combo", "text", "click"} /\ o.phase = 1 ->
             [o EXCEPT !.pc = "sleep"]
      [] o.kind = "text" /\ o.phase = 2 -> [o EXCEPT !.pc = "gap"]
      [] OTHER -> Done(o, "")

\* the executor's send() returned: the frame is written
WriteOk(s) ==
    /\ ops[s].pc = "write"
    /\ ops' = [ops EXCEPT ![s] =
           AfterWrite([@ EXCEPT !.frames = Append(@, ops[s].pend),
                                !.pend = <<>>, !.sock = 0])]
    /\ lastStop' = NoStop
    /\ UNCHANGED <<connected, mouse_buttons>>
    /\ opFrame

\* WriteFail with the connection left marked as up
WriteFailStaysConnected(s) ==
    /\ ops[s].pc = "write"
    /\ ops' = [ops EXCEPT ![s] = Done(@, "BtHidError")]
    /\ lastStop' = NoStop
    /\ UNCHANGED <<connected, mouse_buttons>>
    /\ opFrame

\* the executor's send() raised OSError: lines 433-435
WriteFail(s) ==
    /\ ops[s].pc = "write"
    /\ connected' = FALSE
    /\ ops' = [ops EXCEPT ![s] = Done(@, "BtHidError")]
    /\ lastStop' = NoStop
    /\ UNCHANGED mouse_buttons
    /\ opFrame

\* SleepDone of a tap that ends without its release report
SleepDoneNoRelease(s) ==
    /\ ops[s].pc = "sleep"
    /\ IF ops[s].kind = "click"
       THEN LET held == BitClear(mouse_buttons, ops[s].btn)
            IN  /\ mouse_buttons' = held
                /\ ops' = [ops EXCEPT ![s] =
                       SendRaw([@ EXCEPT !.phase = 2], MouseReport(held, 0, 0, 0))]
       ELSE /\ ops' = [ops EXCEPT ![s] = Done(@, "")]
            /\ UNCHANGED mouse_buttons
    /\ lastStop' = NoStop
    /\ UNCHANGED connected
    /\ opFrame

\* the sleep between press and release is over: _tap_key line 460,
\* click lines 526-527
SleepDone(s) ==
    /\ ops[s].pc = "sleep"
    /\ IF ops[s].kind = "click"
       THEN LET held == BitClear(mouse_buttons, ops[s].btn)
            IN  /\ mouse_buttons' = held
                /\ ops' = [ops EXCEPT ![s] =
                       SendRaw([@ EXCEPT !.phase = 2], MouseReport(held, 0, 0, 0))]
       ELSE /\ ops' = [ops EXCEPT ![s] = SendRaw([@ EXCEPT !.phase = 2], ReleaseReport)]
            /\ UNCHANGED mouse_buttons
    /\ lastStop' = NoStop
    /\ UNCHANGED connected
    /\ opFrame

\* send_text's sleep after a character is over: lines 491-495
GapDone(s) ==
    /\ ops[s].pc = "gap"
    /\ ops' = [ops EXCEPT ![s] = TextNext(@)]
    /\ lastStop' = NoStop
    /\ UNCHANGED <<connected, mouse_buttons>>
    /\ opFrame

\* BtStatus of handlers that catch BtHidError only
BtStatusUncaught(o) ==
    IF o.err = "" THEN 200 ELSE IF o.err = "BtHidError" THEN 400 ELSE 500

\* the status of the REST bridge's response to a /bt request whose
\* operation has ended: its handler turns every exception into a 400
BtStatus(o) == IF o.err = "" THEN 200 ELSE 400

\* the caller has the result; the slot is free again
Return(s) ==
    /\ ops[s].pc = "done"
    /\ ops' = [ops EXCEPT ![s] = NoOp]
    /\ UNCHANGED <<connected, mouse_buttons, lastStop>>
    /\ opFrame


(***************************************************************************)
(* Calls of the functions of hid_codes.py.  A call is one step: the         *)
(* functions read the tables only.                                          *)
(***************************************************************************)
CallCharToHid(char) ==
    /\ call' = [fn |-> "char_to_hid", arg |-> char, out |-> char_to_hid(char)]
    /\ UNCHANGED <<srv, closed, waiter, nconn, reader, ops, hist, bluez, hidw, app>>

CallKeyNameToHid(key) ==
    /\ call' = [fn |-> "key_name_to_hid", arg |-> key, out |-> key_name_to_hid(key)]
    /\ UNCHANGED <<srv, closed, waiter, nconn, reader, ops, hist, bluez, hidw, app>>

CallModifiersToBitmask(modifiers) ==
    /\ call' = [fn |-> "modifiers_to_bitmask", arg |-> modifiers,
                out |-> modifiers_to_bitmask(modifiers)]
    /\ UNCHANGED <<srv, closed, waiter, nconn, reader, ops, hist, bluez, hidw, app>>

(***************************************************************************)
(* bt_hid.py: the BlueZ helpers.  Both functions are synchronous: a call is *)
(* one step.  env is "no_dbus" when the dbus module cannot be imported and  *)
(* "no_bus" when the system bus or the BlueZ object cannot be reached.  The *)
(* text of a D-Bus error, str(e), is the sequence of its words; a phrase is *)
(* in it when its words stand in it in a row.                               *)
(***************************************************************************)
\* needle in text
InText(needle, text) ==
    \E i \in 0 .. Len(text) - Len(needle) :
        \A j \in 1 .. Len(needle) : text[i + j] = needle[j]

\* text.lower()
LowerText(text) == [i \in 1 .. Len(text) |-> Lower(text[i])]

\* the answers of the daemon to RegisterProfile, each with the name of the
\* D-Bus error and the text str(e) gives: for a profile that is registered
\* already, and the failures it can answer with at any time
DuplicateErrors ==
    {[name |-> "AlreadyExists",
      text |-> <<"org", "bluez", "Error", "AlreadyExists", "Already", "Exists">>],
     [name |-> "NotPermitted",
      text |-> <<"org", "bluez", "Error", "NotPermitted", "UUID", "already", "registered">>],
     [name |-> "Failed",
      text |-> <<"org", "bluez", "Error", "Failed", "Profile", "Already", "Registered">>]}
OtherErrors ==
    {[name |-> "InvalidArguments",
      text |-> <<"org", "bluez", "Error", "InvalidArguments", "Invalid", "arguments">>],
     [name |-> "ServiceUnknown",
      text |-> <<"org", "freedesktop", "DBus", "Error", "ServiceUnknown">>],
     [name |-> "AccessDenied",
      text |-> <<"org", "freedesktop", "DBus", "Error", "AccessDenied", "Rejected">>]}
DbusEnvs == {"ok", "no_dbus", "no_bus"}

\* RegisterOutcome that lets every DBusException pass as non-fatal
RegisterOutcomeAnyError(env, reply) ==
    IF env = "no_dbus" THEN "BtHidError"
    ELSE IF env = "no_bus" THEN "DBusException"
    ELSE "ok"

\* how register_sdp_profile() ends: lines 568-604
RegisterOutcome(env, reply) ==
    IF env = "no_dbus" THEN "BtHidError"
    ELSE IF env = "no_bus" THEN "DBusException"
    ELSE IF reply = NoError THEN "ok"
    ELSE IF \/ InText(<<"AlreadyExists">>, reply.text)
            \/ InText(<<"already", "registered">>, LowerText(reply.text))
    THEN "ok"
    ELSE IF InText(<<"NotPermitted">>, reply.text) THEN "ok"
    ELSE "BtHidError"

\* the answers the daemon can give to RegisterProfile when it holds b
Replies(b, env) ==
    IF env = "ok"
    THEN (IF b.registered THEN DuplicateErrors ELSE {NoError}) \cup OtherErrors
    ELSE {NoError}

\* the daemon after register_sdp_profile() was called when it held b
Registered(b, env, reply) ==
    [b EXCEPT
        !.registered = @ \/ (env = "ok" /\ reply = NoError),
        !.last = [NoDbusCall EXCEPT !.fn = "register_sdp_profile",
                                    !.env = env, !.reply = reply,
                                    !.out = RegisterOutcome(env, reply)]]

register_sdp_profile(env, reply) ==
    /\ reply \in Replies(bluez, env)
    /\ bluez' = Registered(bluez, env, reply)
    /\ UNCHANGED <<srv, closed, waiter, nconn, reader, ops, hist, call, hidw, app>>

\* the properties configure_bluetooth_adapter() sets, in its order, with
\* the values dbus.Boolean(True) and dbus.UInt32(0)
AdapterProperties ==
    << <<"Powered", [type |-> "Boolean", value |-> 1]>>,
       <<"Discoverable", [type |-> "Boolean", value |-> 1]>>,
       <<"DiscoverableTimeout", [type |-> "UInt32", value |-> 0]>>,
       <<"Pairable", [type |-> "Boolean", value |-> 1]>> >>

PropertyNames == {AdapterProperties[i][1] : i \in 1 .. Len(AdapterProperties)}

\* AdapterLoop that ends with the first Set that fails
RECURSIVE AdapterLoopAbort(_, _, _, _)
AdapterLoopAbort(i, fails, sets, adapter) ==
    IF i > Len(AdapterProperties) THEN [sets |-> sets, adapter |-> adapter]
    ELSE LET prop == AdapterProperties[i][1]
             val == AdapterProperties[i][2]
         IN  IF prop \in fails
             THEN [sets |-> Append(sets, <<prop, val>>), adapter |-> adapter]
             ELSE AdapterLoopAbort(i + 1, fails, Append(sets, <<prop, val>>),
                                   (prop :> val) @@ adapter)

\* the loop of configure_bluetooth_adapter() from the i-th property on:
\* sets are the adapter.Set calls made, adapter the properties the daemon
\* holds; the Set of a property in fails raises DBusException
RECURSIVE AdapterLoop(_, _, _, _)
AdapterLoop(i, fails, sets, adapter) ==
    IF i > Len(AdapterProperties) THEN [sets |-> sets, adapter |-> adapter]
    ELSE LET prop == AdapterProperties[i][1]
             val == AdapterProperties[i][2]
         IN  IF prop \in fails
             THEN AdapterLoop(i + 1, fails, Append(sets, <<prop, val>>), adapter)
             ELSE AdapterLoop(i + 1, fails, Append(sets, <<prop, val>>),
                              (prop :> val) @@ adapter)

\* the daemon after configure_bluetooth_adapter() was called when it
\* held b
Configured(b, env, fails) ==
    LET done == IF env = "ok" THEN AdapterLoop(1, fails, <<>>, b.adapter)
                ELSE [sets |-> <<>>, adapter |-> b.adapter]
    IN  [b EXCEPT
            !.adapter = done.adapter,
            !.last = [NoDbusCall EXCEPT
                         !.fn = "configure_bluetooth_adapter",
                         !.env = env, !.fails = fails, !.sets = done.sets,
                         !.out = IF env = "no_dbus" THEN "BtHidError"
                                 ELSE IF env = "no_bus" THEN "DBusException"
                                 ELSE "ok"]]

configure_bluetooth_adapter(env, fails) ==
    /\ env # "ok" => fails = {}
    /\ bluez' = Configured(bluez, env, fails)
    /\ UNCHANGED <<srv, closed, waiter, nconn, reader, ops, hist, call, hidw, app>>
(***************************************************************************)
(* hid_writer.py: HidWriter.  os.open, os.write and os.close run in the     *)
(* executor: a call hands its job to the executor and is suspended (pc      *)
(* "open", "write", "release", "os_close"); a thread runs the job           *)
(* (ExecutorRun), and in a later step of the event loop the result is       *)
(* delivered to the call.  Steps of other calls come in between: the        *)
(* writer has no lock, and open(), close() and _write_report() of several   *)
(* coroutines overlap.                                                      *)
(***************************************************************************)
\* b"\x00" * 8
RELEASE_REPORT == <<0, 0, 0, 0, 0, 0, 0, 0>>

is_open == hidw.fd # 0

hidFrame == UNCHANGED <<srv, closed, waiter, nconn, reader, ops, hist, call, bluez, app>>

HidDone(c, err) == [c EXCEPT !.pc = "done", !.out = err, !.job = "none"]

\* os.open returns the lowest descriptor that is free
FreeFds == (1 .. MaxFds) \ hidw.osfds
LowestFree == CHOOSE fd \in FreeFds : \A g \in FreeFds : fd <= g

\* _write_report up to its await: lines 102-111
WriteReport(c, report) ==
    IF hidw.fd = 0 THEN HidDone([c EXCEPT !.report = report], "HidWriteError")
    ELSE IF Len(report) # 8 THEN HidDone([c EXCEPT !.report = report], "HidWriteError")
    ELSE [c EXCEPT !.pc = "write", !.report = report, !.fd = hidw.fd,
                   !.job = "queued"]

\* open() up to its await: lines 68-76
OpenCall(kind) == [NoHidCall EXCEPT !.kind = kind, !.pc = "open", !.job = "queued"]

\* close() up to its first await, the os.write of release_keys():
\* lines 84-90, 122-124
CloseCall(kind) ==
    LET c == [NoHidCall EXCEPT !.kind = kind]
    IN  IF hidw.fd = 0 THEN HidDone(c, "")
        ELSE [WriteReport(c, RELEASE_REPORT) EXCEPT !.pc = "release"]

\* close() from the end of release_keys() to its second await, lines
\* 89-96: the HidWriteError of a failed write is ignored, self._fd is read
\* again (another close() may have set it to None meanwhile) and
\* os.close(fd) is handed to the executor
CloseRelease(c) == [c EXCEPT !.pc = "os_close", !.fd = hidw.fd, !.job = "queued"]

\* a thread of the executor runs the job of coroutine t: os.open (lines
\* 74-76), os.write (109-111) or os.close (93-96) returns (ok) or raises.
\* os.write and os.close return only on a descriptor that is open;
\* os.close(None) raises TypeError, anything else that fails OSError.
ExecutorRun(t, ok) ==
    LET c == hidw.co[t]
        c1 == [c EXCEPT !.job = IF ok THEN "returned" ELSE "raised"]
    IN  /\ c.job = "queued"
        /\ CASE c.pc = "open" ->
                   /\ ok => FreeFds # {}
                   /\ hidw' = IF ok
                              THEN [hidw EXCEPT !.osfds = @ \cup {LowestFree},
                                                !.co[t] = [c1 EXCEPT !.fd = LowestFree]]
                              ELSE [hidw EXCEPT !.co[t] = c1]
             [] c.pc \in {"write", "release"} ->
                   /\ ok => c.fd \in hidw.osfds
                   /\ hidw' = [hidw EXCEPT !.co[t] = [c1 EXCEPT !.wrote = ok]]
             [] c.pc = "os_close" ->
                   /\ ok => c.fd \in hidw.osfds
                   /\ c.fd = 0 => ~ok
                   /\ hidw' = [hidw EXCEPT
                          !.osfds = IF ok THEN @ \ {c.fd} ELSE @,
                          !.co[t] = IF c.fd = 0 THEN [c EXCEPT !.job = "type_error"]
                                    ELSE c1]
        /\ hidFrame

\* open() and __aenter__ up to the await: lines 68-76, 169-170
open(t, kind) ==
    /\ hidw.co[t].pc = "idle"
    /\ hidw' = [hidw EXCEPT !.co[t] = OpenCall(kind)]
    /\ hidFrame

\* the descriptor os.open returned is delivered: self._fd is set
OpenOk(t) ==
    /\ hidw.co[t].pc = "open"
    /\ hidw.co[t].job = "returned"
    /\ hidw' = [hidw EXCEPT !.fd = hidw.co[t].fd,
                            !.co[t] = HidDone(@, "")]
    /\ hidFrame

\* the OSError of os.open is delivered: lines 78-82
OpenFail(t) ==
    /\ hidw.co[t].pc = "open"
    /\ hidw.co[t].job = "raised"
    /\ hidw' = [hidw EXCEPT !.co[t] = HidDone(@, "HidWriteError")]
    /\ hidFrame

\* close() and __aexit__ up to the first await: lines 84-90, 173-174
close(t, kind) ==
    /\ hidw.co[t].pc = "idle"
    /\ hidw' = [hidw EXCEPT !.co[t] = CloseCall(kind)]
    /\ hidFrame

\* the result of the write of the release report is delivered to close(),
\* done (ok) or raised; close() goes on to its os.close
ReleaseDone(t, ok) ==
    /\ hidw.co[t].pc = "release"
    /\ hidw.co[t].job = IF ok THEN "returned" ELSE "raised"
    /\ hidw' = [hidw EXCEPT !.co[t] = CloseRelease(@)]
    /\ hidFrame

\* close() from the delivery of the result of os.close to its end, lines
\* 93-100: after a return or an OSError, which is ignored, self._fd is set
\* to None; the TypeError of os.close(None) is not caught, close() raises
\* it and does not assign self._fd
CloseEnd(c) ==
    [fd |-> IF c.job = "type_error" THEN hidw.fd ELSE 0,
     co |-> HidDone(c, IF c.job = "type_error" THEN "TypeError" ELSE "")]

CloseDone(t) ==
    /\ hidw.co[t].pc = "os_close"
    /\ hidw.co[t].job \in {"returned", "raised", "type_error"}
    /\ hidw' = [hidw EXCEPT !.fd = CloseEnd(hidw.co[t]).fd,
                            !.co[t] = CloseEnd(hidw.co[t]).co]
    /\ hidFrame

write_report(t, report) ==
    /\ hidw.co[t].pc = "idle"
    /\ hidw' = [hidw EXCEPT !.co[t] =
           WriteReport([NoHidCall EXCEPT !.kind = "write_report"], report)]
    /\ hidFrame

\* the result of os.write is delivered, returned (ok) or OSError:
\* lines 109-115
HidWriteDone(t, ok) ==
    /\ hidw.co[t].pc = "write"
    /\ hidw.co[t].job = IF ok THEN "returned" ELSE "raised"
    /\ hidw' = [hidw EXCEPT !.co[t] =
           IF ok THEN HidDone(@, "") ELSE HidDone(@, "HidWriteError")]
    /\ hidFrame

\* the caller of open(), close() or _write_report() has the result
HidReturn(t) ==
    /\ hidw.co[t].pc = "done"
    /\ hidw' = [hidw EXCEPT !.co[t] = NoHidCall]
    /\ hidFrame

(***************************************************************************)
(* server.py: the REST bridge made by create_app() with no writer and no    *)
(* BluetoothHidServer handed in: its lifespan before and after the yield,   *)
(* /health, the USB endpoints and the Bluetooth endpoints.  hidw is the     *)
(* keyboard writer; the lifespan is its coroutine 0 and the USB keyboard    *)
(* request being served its coroutine UsbCo.  MouseHidWriter is not among   *)
(* the sources: of the mouse writer the bridge keeps whether it is open     *)
(* and how many reports a request has written, as its tests                 *)
(* (test_hid_writer.py, from line 176) describe it.                         *)
(***************************************************************************)
bridgeFrame == UNCHANGED <<srv, closed, waiter, nconn, reader, ops, hist, call, bluez>>

UsbCo == 1

\* lifespan up to the await in w.open(): lines 111-121
lifespan_enter ==
    /\ app.pc = "new"
    /\ hidw.co[0].pc = "idle"
    /\ hidw' = [hidw EXCEPT !.co[0] = OpenCall("open")]
    /\ app' = [app EXCEPT !.pc = "keyboard"]
    /\ bridgeFrame

\* the result of the keyboard writer's os.open is delivered: open() sets
\* _fd and returns, or raises HidWriteError, which lifespan catches; the
\* lifespan goes on to the await in mw.open(): lines 121-136
KeyboardOpened ==
    /\ app.pc = "keyboard"
    /\ hidw.co[0].pc = "open"
    /\ hidw.co[0].job \in {"returned", "raised"}
    /\ hidw' = [hidw EXCEPT !.fd = IF hidw.co[0].job = "returned"
                                   THEN hidw.co[0].fd ELSE @,
                            !.co[0] = NoHidCall]
    /\ app' = [app EXCEPT !.pc = "mouse"]
    /\ bridgeFrame

\* how far the Bluetooth part of lifespan gets: lines 146-157
InitReached(enable, b1, b2) ==
    IF ~enable THEN "none"
    ELSE IF b1.last.out # "ok" THEN "configure"
    ELSE IF b2.last.out # "ok" THEN "register"
    ELSE "start"

\* lifespan with app.state.bt_hid assigned when the server object is made
\* and left as it is by the except clause
lifespanServerKept(mouse, enable, env, fails, reply, outcome) ==
    /\ app.pc = "mouse"
    /\ env # "ok" => fails = {}
    /\ LET b1 == Configured(bluez, env, fails)
           b2 == Registered(b1, env, reply)
           reached == InitReached(enable, b1, b2)
       IN  /\ reply \in Replies(b1, env)
           /\ bluez' = CASE reached = "none" -> bluez
                         [] reached = "configure" -> b1
                         [] OTHER -> b2
           /\ control_sock' = IF reached = "start" THEN StartSocks(outcome).control
                              ELSE control_sock
           /\ interrupt_sock' = IF reached = "start" THEN StartSocks(outcome).interrupt
                                ELSE interrupt_sock
           /\ app' = [app EXCEPT !.pc = "serving", !.mouse_open = mouse,
                                 !.enable_bt_hid = enable,
                                 !.bt_hid = IF reached = "start"
                                            THEN "server" ELSE "none"]
    /\ lastStop' = NoStop
    /\ UNCHANGED <<control_client, interrupt_client, connected, mouse_buttons,
                   control_task, closed, waiter, nconn, reader, ops,
                   waitOut, accepted, nTasks, nWaitOk, call, hidw>>

\* lifespan from the delivery of the result of mw.open() to its yield,
\* lines 136-176: the mouse writer was opened (mouse) or HidWriteError is
\* caught; then configure_bluetooth_adapter(), register_sdp_profile() and
\* start() are called in a row, none of them suspends, and an exception of
\* any of them is caught
lifespan(mouse, enable, env, fails, reply, outcome) ==
    /\ app.pc = "mouse"
    /\ env # "ok" => fails = {}
    /\ LET b1 == Configured(bluez, env, fails)
           b2 == Registered(b1, env, reply)
           reached == InitReached(enable, b1, b2)
       IN  /\ reply \in Replies(b1, env)
           /\ bluez' = CASE reached = "none" -> bluez
                         [] reached = "configure" -> b1
                         [] OTHER -> b2
           /\ control_sock' = IF reached = "start" THEN StartSocks(outcome).control
                              ELSE control_sock
           /\ interrupt_sock' = IF reached = "start" THEN StartSocks(outcome).interrupt
                                ELSE interrupt_sock
           /\ app' = [app EXCEPT !.pc = "serving", !.mouse_open = mouse,
                                 !.enable_bt_hid = enable,
                                 !.bt_hid = IF reached = "start" /\ outcome = "ok"
                                            THEN "server" ELSE "none"]
    /\ lastStop' = NoStop
    /\ UNCHANGED <<control_client, interrupt_client, connected, mouse_buttons,
                   control_task, closed, waiter, nconn, reader, ops,
                   waitOut, accepted, nTasks, nWaitOk, call, hidw>>

\* GET /health: lines 204-216
health_check ==
    /\ app.pc = "serving"
    /\ app' = [app EXCEPT !.resp =
           [path |-> "/health", status |-> 200, hid_open |-> is_open,
            mouse_hid_open |-> app.mouse_open,
            bt_hid_connected |-> IF app.bt_hid = "none" THEN FALSE
                                 ELSE bt_hid_connected]]
    /\ UNCHANGED <<srv, closed, waiter, nconn, reader, ops, hist, call, bluez, hidw>>

\* a USB request is taken while the bridge serves and no other USB request
\* is being served
UsbFree == app.pc = "serving" /\ app.usb.pc = "idle"

\* the end of a USB handler, lines 222-278: {"status": "ok"} when the call
\* of the writer returned, HTTPException(400) for the ValueError or
\* HidWriteError it raised
UsbRespond(u, err) ==
    app' = [app EXCEPT !.usb = NoUsb,
                       !.resp = [NoResponse EXCEPT !.path = u.path,
                                     !.status = IF err = "" THEN 200 ELSE 400]]

\* the report of press_key: hid_writer.py line 119
PressReport(hid) == <<hid.mod, 0, hid.code, 0, 0, 0, 0, 0>>

\* a keyboard handler at a _write_report(), of press_key or of
\* release_keys: it raises at once, or the handler is suspended in the
\* os.write
UsbWrite(u, report) ==
    LET c == WriteReport([NoHidCall EXCEPT !.kind = "write_report"], report)
    IN  IF c.pc = "done"
        THEN /\ UsbRespond(u, c.out)
             /\ UNCHANGED hidw
        ELSE /\ app' = [app EXCEPT !.usb = [u EXCEPT !.pc = "write"]]
             /\ hidw' = [hidw EXCEPT !.co[UsbCo] = c]

\* a keyboard handler from the key codes of hid_codes.py to the first
\* await of tap_key: hid_writer.py lines 126-128
UsbTap(u, hid) ==
    IF hid.err # ""
    THEN /\ UsbRespond(u, hid.err)
         /\ UNCHANGED hidw
    ELSE UsbWrite([u EXCEPT !.phase = 1], PressReport(hid))

\* HidWriter.send_text's loop from the character after position u.i:
\* hid_writer.py lines 161-167
UsbTextNext(u) ==
    LET text == u.args[1]
        j == u.i + 1
    IN  IF j > Len(text)
        THEN /\ UsbRespond(u, "")
             /\ UNCHANGED hidw
        ELSE UsbTap([u EXCEPT !.i = j], char_to_hid(text[j]))

\* POST /keystroke up to the first await of w.send_keystroke(): server.py
\* lines 222-229, hid_writer.py 132-141
receive_keystroke(key) ==
    /\ UsbFree
    /\ UsbTap([NoUsb EXCEPT !.path = "/keystroke", !.args = <<key>>], KeystrokeHid(key))
    /\ bridgeFrame

\* POST /key-combo: server.py lines 231-238, hid_writer.py 145-155
receive_key_combo(modifiers, key) ==
    /\ UsbFree
    /\ UsbTap([NoUsb EXCEPT !.path = "/key-combo", !.args = <<modifiers, key>>],
              ComboHid(modifiers, key))
    /\ bridgeFrame

\* POST /text: server.py lines 240-247
receive_text(text) ==
    /\ UsbFree
    /\ UsbTextNext([NoUsb EXCEPT !.path = "/text", !.args = <<text>>])
    /\ bridgeFrame

\* the result of the os.write of a keyboard request is delivered: OSError
\* makes _write_report raise HidWriteError; after the press tap_key
\* sleeps; after the release send_keystroke and send_key_combo return and
\* send_text sleeps
UsbWriteDone(ok) ==
    LET u == [app.usb EXCEPT !.reports = Append(@, hidw.co[UsbCo].report)]
    IN  /\ app.usb.pc = "write"
        /\ hidw.co[UsbCo].pc = "write"
        /\ hidw.co[UsbCo].job = IF ok THEN "returned" ELSE "raised"
        /\ hidw' = [hidw EXCEPT !.co[UsbCo] = NoHidCall]
        /\ IF ~ok THEN UsbRespond(app.usb, "HidWriteError")
           ELSE IF u.phase = 1 THEN app' = [app EXCEPT !.usb = [u EXCEPT !.pc = "sleep"]]
           ELSE IF u.path = "/text" THEN app' = [app EXCEPT !.usb = [u EXCEPT !.pc = "gap"]]
           ELSE UsbRespond(u, "")
        /\ bridgeFrame

\* tap_key's sleep is over; release_keys(): hid_writer.py lines 129-130
UsbSleepDone ==
    /\ app.usb.pc = "sleep"
    /\ UsbWrite([app.usb EXCEPT !.phase = 2], RELEASE_REPORT)
    /\ bridgeFrame

\* send_text's sleep after a character is over
UsbGapDone ==
    /\ app.usb.pc = "gap"
    /\ UsbTextNext(app.usb)
    /\ bridgeFrame

\* mouse_move, mouse_click and mouse_scroll (POST /mouse/move, /mouse/click
\* and /mouse/scroll) up to the first await of the call of the mouse
\* writer: server.py lines 253-278.  Of MouseHidWriter the tests tell that
\* click() of an unknown button raises ValueError and writes nothing, that
\* _write_report() of a writer that is not open raises HidWriteError, and
\* that each report is one os.write
UsbMouse(path, args) ==
    LET u == [NoUsb EXCEPT !.path = path, !.args = args]
    IN  /\ UsbFree
        /\ IF path = "/mouse/click" /\ Lower(args[1]) \notin DOMAIN BUTTON_MAP
           THEN UsbRespond(u, "ValueError")
           ELSE IF ~app.mouse_open
           THEN UsbRespond(u, "HidWriteError")
           ELSE app' = [app EXCEPT !.usb = [u EXCEPT !.pc = "mouse"]]
        /\ UNCHANGED hidw
        /\ bridgeFrame

\* an os.write of the mouse writer ran and its result is delivered: OSError
\* (err) makes _write_report raise HidWriteError; move() and scroll() write
\* one report, click() the press and then the release
UsbMouseDone(err) ==
    LET u == [app.usb EXCEPT !.mouse_reports = @ + 1]
    IN  /\ app.usb.pc = "mouse"
        /\ err \in {"", "HidWriteError"}
        /\ IF err # "" THEN UsbRespond(app.usb, err)
           ELSE IF u.path = "/mouse/click" /\ u.mouse_reports = 1
           THEN app' = [app EXCEPT !.usb = u]
           ELSE UsbRespond(u, "")
        /\ UNCHANGED hidw
        /\ bridgeFrame

\* _get_bt raises HTTPException(503): lines 284-291
Unavailable(path) ==
    /\ app' = [app EXCEPT !.resp = [NoResponse EXCEPT !.path = path, !.status = 503]]
    /\ UNCHANGED <<srv, closed, waiter, nconn, reader, ops, hist, call, bluez, hidw>>

\* a /bt endpoint up to the first await of the operation it calls
BtEndpoint(path, operation) ==
    /\ app.pc = "serving"
    /\ IF app.bt_hid = "none" THEN Unavailable(path) ELSE operation

\* w.close() of the lifespan up to its first await, line 191; when the
\* writer is not open it returns at once and the lifespan is at its end
KeyboardClose ==
    LET c == CloseCall("close")
    IN  /\ hidw' = [hidw EXCEPT !.co[0] = IF c.pc = "done" THEN NoHidCall ELSE c]
        /\ app' = [app EXCEPT !.mouse_open = FALSE,
                              !.pc = IF c.pc = "done" THEN "stopped"
                                     ELSE "keyboard_close"]

\* the lifespan after its yield, lines 180-191, once no request is being
\* served: _accept_bt_loop's task is cancelled, stop() of the server runs,
\* and mw.close() is called, which suspends when the mouse writer is open
lifespan_exit(errs) ==
    /\ app.pc = "serving"
    /\ app.usb.pc = "idle"
    /\ \A s \in Slots : ops[s].kind = "none"
    /\ IF app.bt_hid = "server"
       THEN /\ StopServer(errs)
            /\ waiter' = IF waiter.pc = "idle" THEN waiter
                         ELSE [waiter EXCEPT !.pc = "cancelled"]
       ELSE /\ errs = {}
            /\ UNCHANGED <<srv, closed, waiter, nconn, reader, ops, hist>>
    /\ IF app.mouse_open
       THEN /\ app' = [app EXCEPT !.pc = "mouse_close"]
            /\ UNCHANGED hidw
       ELSE KeyboardClose
    /\ UNCHANGED <<call, bluez>>

\* the CancelledError of Task.cancel() is thrown into _accept_bt_loop's
\* task, suspended in an accept of wait_for_connection(): the loop does not
\* catch it
AcceptCancelled ==
    /\ waiter.pc = "cancelled"
    /\ waiter' = IdleWaiter
    /\ waitOut' = "CancelledError"
    /\ lastStop' = NoStop
    /\ UNCHANGED <<srv, closed, nconn, reader, ops, accepted, nTasks, nWaitOk, lib>>

\* mw.close() returned; w.close(): lines 190-191
MouseClosed ==
    /\ app.pc = "mouse_close"
    /\ KeyboardClose
    /\ bridgeFrame

\* the result of os.close is delivered to the lifespan's w.close(), which
\* ends; the lifespan is at its end: line 192
KeyboardClosed ==
    /\ app.pc = "keyboard_close"
    /\ hidw.co[0].pc = "os_close"
    /\ hidw.co[0].job \in {"returned", "raised", "type_error"}
    /\ hidw' = [hidw EXCEPT !.fd = CloseEnd(hidw.co[0]).fd,
                            !.co[0] = NoHidCall]
    /\ app' = [app EXCEPT !.pc = "stopped"]
    /\ bridgeFrame

(***************************************************************************)
(* The callers' requests in the model.                                      *)
(***************************************************************************)
Keys == {"Enter", "a", "A", "!", "enter", "\t"}
Combos == {<<<<"ctrl">>, "c">>, <<<<"Ctrl", "shift">>, "Delete">>,
           <<<<"alt">>, "!">>, <<<<"banana">>, "c">>, <<<<>>, "nokey">>}
TextChars == {"h", "i", "\t"}
Texts == UNION {[1 .. n -> TextChars] : n \in 0 .. MaxTextLen} \cup {<<"A">>}
Moves == {<<200, -200>>, <<10, -5>>}
Buttons == {"left", "Right", "middle", "banana"}
Scrolls == {-3, 300}
Deltas == {-200, -128, -127, -1, 0, 1, 127, 128, 200}

Handles == {StopOrder[i] : i \in 1 .. Len(StopOrder)}

\* start(), stop() and the steps of wait_for_connection()
Lifecycle(outcomes) ==
    \/ \E outcome \in outcomes : start(outcome)
    \/ \E errs \in SUBSET {h \in Handles : Present(h)} : stop(errs)
    \/ wait_for_connection
    \/ AcceptControl
    \/ AcceptInterrupt
    \/ AcceptFail

\* whether the peer's close can be read behind the burst q in the same
\* step: only when the reply to its last message was written
Closes(q) == IF q = <<>> \/ q[Len(q)].res = "sent" THEN BOOLEAN ELSE {FALSE}

\* the reader tasks that are at pc
At(pc) == {k \in Conns : reader[k].pc = pc}

\* the steps of the reader tasks, for messages starting with one of bytes
Readers(bytes) ==
    \/ \E k \in At("created"), q \in Bursts(bytes) : \E end \in Closes(q) :
           ReaderRun(k, q, end)
    \/ \E k \in At("recv"), q \in Bursts(bytes) : \E end \in Closes(q) :
           ReaderRecv(k, q, end)
    \/ \E k \in Conns : ReaderRecvEnd(k)
    \/ \E k \in At("send"), q \in Bursts(bytes) : \E end \in Closes(q) :
           ReaderSendDone(k, "sent", q, end)
    \/ \E k \in At("send") : ReaderSendDone(k, "error", <<>>, FALSE)
    \/ \E k \in Conns : ReaderCancelled(k)

\* the steps of the reader tasks when the host sends no control message
QuietReaders ==
    \/ \E k \in Conns, end \in BOOLEAN : ReaderRun(k, <<>>, end)
    \/ \E k \in Conns : ReaderRecvEnd(k)
    \/ \E k \in Conns : ReaderCancelled(k)

\* the steps of the send operations in progress
Progress ==
    \/ \E s \in Slots : WriteOk(s)
    \/ \E s \in Slots : WriteFail(s)
    \/ \E s \in Slots : SleepDone(s)
    \/ \E s \in Slots : Return(s)

\* The lifecycle: every way start() can end, a host that sends
\* SET_PROTOCOL(Report) messages, and keystrokes and clicks one at a time.
Next ==
    \/ Lifecycle(StartOutcomes)
    \/ Readers({113})
    \/ send_keystroke(1, "Enter")
    \/ click(1, "left")
    \/ Progress

Spec == Init /\ [][Next]_vars

\* The control channel: a host that sends every control message of the
\* model, singly and in bursts, and closes the channel.
CtlNext ==
    \/ Lifecycle({"ok"})
    \/ Readers(CtlBytes)

CtlSpec == Init /\ [][CtlNext]_vars

\* the control messages a host sends while send operations run: one
\* without a reply, GET_PROTOCOL and SET_PROTOCOL(Report)
ChanBytes == {19, 96, 113}

\* The two channels: a host that sends control messages while scroll()
\* calls run and fail.
ChanNext ==
    \/ Lifecycle({"ok"})
    \/ Readers(ChanBytes)
    \/ scroll(1, -3)
    \/ \E s \in Slots : WriteOk(s)
    \/ \E s \in Slots : WriteFail(s)
    \/ \E s \in Slots : Return(s)

ChanSpec == Init /\ [][ChanNext]_vars

\* The keyboard: every keystroke and combination of the model, one at a
\* time, with a host that sends no control message.
KeyNext ==
    \/ Lifecycle({"ok"})
    \/ QuietReaders
    \/ \E key \in Keys : send_keystroke(1, key)
    \/ \E c \in Combos : send_key_combo(1, c[1], c[2])
    \/ Progress

KeySpec == Init /\ [][KeyNext]_vars

\* Typing: every text of the model, one at a time.
TextNext1 ==
    \/ Lifecycle({"ok"})
    \/ QuietReaders
    \/ \E text \in Texts : send_text(1, text)
    \/ Progress
    \/ \E s \in Slots : GapDone(s)

TextSpec == Init /\ [][TextNext1]_vars

\* Every kind of send operation, one at a time.
SendNext ==
    \/ Lifecycle({"ok"})
    \/ QuietReaders
    \/ \E key \in {"A", "enter"} : send_keystroke(1, key)
    \/ send_key_combo(1, <<"ctrl", "shift">>, "!")
    \/ \E text \in {<<"h", "i">>, <<>>, <<"\t">>} : send_text(1, text)
    \/ move(1, 200, -200)
    \/ \E button \in {"left", "banana"} : click(1, button)
    \/ scroll(1, -3)
    \/ Progress
    \/ \E s \in Slots : GapDone(s)

SendSpec == Init /\ [][SendNext]_vars


\* The REST bridge's accept loop: connections accepted one after another
\* without a stop() in between, next to start() and stop(), with hosts that
\* send no control message.  The event loop runs every task that is ready:
\* a reader task's first step and the delivery of a requested cancellation
\* are taken when they are enabled.
PeerNext ==
    \/ start("ok")
    \/ stop({})
    \/ accept_bt_loop
    \/ AcceptControl
    \/ AcceptInterrupt
    \/ AcceptFail
    \/ QuietReaders

PeerSpec ==
    /\ Init
    /\ [][PeerNext]_vars
    /\ \A k \in Conns : WF_vars(\E end \in BOOLEAN : ReaderRun(k, <<>>, end))
    /\ \A k \in Conns : WF_vars(ReaderCancelled(k))

\* The mouse, on a server that is started and connected and not stopped:
\* clicks of every button, one at a time, and a move() or a scroll() that
\* is called on its own or while one other mouse operation is in progress.
MouseNext ==
    \/ start("ok")
    \/ wait_for_connection
    \/ AcceptControl
    \/ AcceptInterrupt
    \/ \E k \in Conns : ReaderRun(k, <<>>, FALSE)
    \/ \E button \in Buttons : click(1, button)
    \/ \E s \in {1, 2} : move(s, 10, -5)
    \/ \E s \in {1, 2} : scroll(s, -3)
    \/ Progress

MouseSpec == Init /\ [][MouseNext]_vars

\* Relative motion and wheel amounts inside, at and beyond the range of a
\* report, one operation at a time, on a server that is not stopped.
ClampNext ==
    \/ start("ok")
    \/ wait_for_connection
    \/ AcceptControl
    \/ AcceptInterrupt
    \/ \E k \in Conns : ReaderRun(k, <<>>, FALSE)
    \/ \E x \in Deltas, y \in Deltas : move(1, x, y)
    \/ \E amount \in Deltas : scroll(1, amount)
    \/ \E s \in Slots : WriteOk(s)
    \/ \E s \in Slots : WriteFail(s)
    \/ \E s \in Slots : Return(s)

ClampSpec == Init /\ [][ClampNext]_vars

\* Requests with known and unknown keys, modifiers and buttons, one at a
\* time, and an Enter keystroke requested before the previous request is
\* answered, on a server that is not stopped.
InputNext ==
    \/ start("ok")
    \/ wait_for_connection
    \/ AcceptControl
    \/ AcceptInterrupt
    \/ \E k \in Conns : ReaderRun(k, <<>>, FALSE)
    \/ \E key \in Keys : send_keystroke(1, key)
    \/ \E c \in Combos : send_key_combo(1, c[1], c[2])
    \/ \E button \in Buttons : click(1, button)
    \/ send_keystroke(2, "Enter")
    \/ Progress

InputSpec == Init /\ [][InputNext]_vars

\* The codec: char_to_hid on every one-character string of the model,
\* key_name_to_hid on every key of the tables and on names in other
\* spellings, modifiers_to_bitmask on lists of names in several spellings
\* with an unknown name among them.
KeyNames ==
    DOMAIN KEY_CODES \cup DOMAIN SHIFT_CHARS \cup UnmappedChars
    \cup {"enter", "ENTER", "f1", "nokey", ""}
ModNames == {"ctrl", "shift", "Alt", "right_alt", "win", "banana"}
ModLists == UNION {[1 .. n -> ModNames] : n \in 0 .. MaxMods}

CodecNext ==
    \/ \E char \in SingleChars : CallCharToHid(char)
    \/ \E key \in KeyNames : CallKeyNameToHid(key)
    \/ \E modifiers \in ModLists : CallModifiersToBitmask(modifiers)

CodecSpec == Init /\ [][CodecNext]_vars

\* Startups: configure_bluetooth_adapter() and register_sdp_profile()
\* called again and again, with every answer of the daemon and every set
\* of adapter properties that it refuses to set.
BluezNext ==
    \/ \E env \in DbusEnvs, fails \in SUBSET PropertyNames :
           configure_bluetooth_adapter(env, fails)
    \/ \E env \in DbusEnvs, reply \in {NoError} \cup DuplicateErrors \cup OtherErrors :
           register_sdp_profile(env, reply)

BluezSpec == Init /\ [][BluezNext]_vars

\* A HidWriter used by three coroutines at the same time: coroutines 0 and
\* 1 open and close it, directly or by entering and leaving the context
\* manager, and coroutines 1 and 2 write reports of 5, 8 and 9 bytes, at
\* any time.
Reports == {<<0, 0, 0, 0, 0>>, <<2, 0, 4, 0, 0, 0, 0, 0>>, <<0, 0, 0, 0, 0, 0, 0, 0, 0>>}

HidNext ==
    \/ \E t \in {0, 1}, kind \in {"open", "aenter"} : open(t, kind)
    \/ \E t \in HidTasks, ok \in BOOLEAN : ExecutorRun(t, ok)
    \/ \E t \in HidTasks : OpenOk(t)
    \/ \E t \in HidTasks : OpenFail(t)
    \/ \E t \in {0, 1}, kind \in {"close", "aexit"} : close(t, kind)
    \/ \E t \in HidTasks, ok \in BOOLEAN : ReleaseDone(t, ok)
    \/ \E t \in HidTasks : CloseDone(t)
    \/ \E t \in {1, 2}, report \in Reports : write_report(t, report)
    \/ \E t \in HidTasks, ok \in BOOLEAN : HidWriteDone(t, ok)
    \/ \E t \in HidTasks : HidReturn(t)

HidSpec == Init /\ [][HidNext]_vars

\* Mouse operations that overlap, on a server that is started and connected
\* and not stopped: clicks of the left and the right button, moves and
\* scrolls, each called on its own or while one other is in progress.
RaceNext ==
    \/ start("ok")
    \/ wait_for_connection
    \/ AcceptControl
    \/ AcceptInterrupt
    \/ \E k \in Conns : ReaderRun(k, <<>>, FALSE)
    \/ \E s \in {1, 2}, button \in {"left", "Right"} : click(s, button)
    \/ \E s \in {1, 2} : move(s, 10, -5)
    \/ \E s \in {1, 2} : scroll(s, -3)
    \/ Progress

RaceSpec == Init /\ [][RaceNext]_vars

\* Taps that run to their end: keystrokes, a combination and a text, each
\* called on its own or while a move() or another keystroke is in
\* progress, on a server that is started and connected and not stopped and
\* whose writes succeed.  A send() handed to the executor returns and a
\* sleep ends.
TapNext ==
    \/ start("ok")
    \/ wait_for_connection
    \/ AcceptControl
    \/ AcceptInterrupt
    \/ \E k \in Conns : ReaderRun(k, <<>>, FALSE)
    \/ \E s \in {1, 2} : send_keystroke(s, "A")
    \/ send_key_combo(1, <<"ctrl", "shift">>, "!")
    \/ send_text(1, <<"h", "i">>)
    \/ \E s \in {1, 2} : move(s, 10, -5)
    \/ \E s \in Slots : WriteOk(s)
    \/ \E s \in Slots : SleepDone(s)
    \/ \E s \in Slots : GapDone(s)
    \/ \E s \in Slots : Return(s)

TapSpec ==
    /\ Init
    /\ [][TapNext]_vars
    /\ \A s \in Slots : WF_vars(WriteOk(s))
    /\ \A s \in Slots : WF_vars(SleepDone(s))

\* The REST bridge from its start to its end: the keyboard and the mouse
\* device present or not, Bluetooth enabled or not, with every way the
\* initialisation can end; then the accept loop, requests to /health, to
\* the six USB endpoints and to the six /bt endpoints, by a client that
\* has one request to a USB or /bt endpoint under way at a time and makes
\* the next request when it has the response; then the shutdown, in which the close() of
\* no socket or of every socket of the server raises.
BtPaths ==
    {"/bt/keystroke", "/bt/key-combo", "/bt/text",
     "/bt/mouse/move", "/bt/mouse/click", "/bt/mouse/scroll"}

\* the client has the last response
ResponseReceived ==
    /\ app.resp # NoResponse
    /\ app' = [app EXCEPT !.resp = NoResponse]
    /\ UNCHANGED <<srv, closed, waiter, nconn, reader, ops, hist, call, bluez, hidw>>

\* no request to a USB or /bt endpoint is being served, and the client has
\* the response of the last one
NoRequest ==
    /\ app.usb.pc = "idle"
    /\ \A s \in Slots : ops[s].kind = "none"
    /\ app.resp = NoResponse

BridgeNext ==
    \/ lifespan_enter
    \/ \E t \in {0, UsbCo}, ok \in BOOLEAN : ExecutorRun(t, ok)
    \/ KeyboardOpened
    \/ \E mouse, enable \in BOOLEAN, env \in DbusEnvs, fails \in {{}, {"Powered"}},
          reply \in {NoError} \cup OtherErrors, outcome \in StartOutcomes :
           lifespan(mouse, enable, env, fails, reply, outcome)
    \/ app.pc = "serving" /\ app.bt_hid = "server" /\ accept_bt_loop
    \/ AcceptControl
    \/ AcceptInterrupt
    \/ AcceptFail
    \/ AcceptCancelled
    \/ \E k \in Conns : ReaderRun(k, <<>>, FALSE)
    \/ \E k \in Conns : ReaderCancelled(k)
    \/ app.resp = NoResponse /\ health_check
    \/ ResponseReceived
    \/ NoRequest /\ \E key \in {"Enter", "enter"} : receive_keystroke(key)
    \/ NoRequest /\ receive_key_combo(<<"ctrl">>, "c")
    \/ NoRequest /\ \E text \in {<<>>, <<"h">>} : receive_text(text)
    \/ \E ok \in BOOLEAN : UsbWriteDone(ok)
    \/ UsbSleepDone
    \/ UsbGapDone
    \/ NoRequest /\ UsbMouse("/mouse/move", <<10, -5>>)
    \/ \E button \in {"left", "nope"} : NoRequest /\ UsbMouse("/mouse/click", <<button>>)
    \/ NoRequest /\ UsbMouse("/mouse/scroll", <<-3>>)
    \/ \E err \in {"", "HidWriteError"} : UsbMouseDone(err)
    \/ NoRequest /\ BtEndpoint("/bt/keystroke", send_keystroke(1, "Enter"))
    \/ NoRequest /\ BtEndpoint("/bt/key-combo", send_key_combo(1, <<"ctrl">>, "c"))
    \/ NoRequest /\ BtEndpoint("/bt/text", send_text(1, <<"h", "i">>))
    \/ NoRequest /\ BtEndpoint("/bt/mouse/move", move(1, 10, -5))
    \/ NoRequest /\ BtEndpoint("/bt/mouse/click", click(1, "left"))
    \/ NoRequest /\ BtEndpoint("/bt/mouse/scroll", scroll(1, -3))
    \/ Progress
    \/ \E s \in Slots : GapDone(s)
    \/ \E errs \in {{}, {h \in Handles : Present(h)}} : lifespan_exit(errs)
    \/ MouseClosed
    \/ \E ok \in BOOLEAN : ReleaseDone(0, ok)
    \/ KeyboardClosed

BridgeSpec == Init /\ [][BridgeNext]_vars
(***************************************************************************)
(* Properties.                                                              *)
(***************************************************************************)
\* the transaction type of a control message: the high nibble of its first
\* byte
MsgType(b) == (b \div 16) * 16

\* C1: when the reader has read a SET_PROTOCOL message (first byte 0x70 to
\* 0x7F), the only bytes it writes to the control channel for it are the
\* single byte 0x00, and it is suspended in its next read only when that
\* byte has been written: the reply is complete before any later message is
\* read.  While the write is still pending the reader is suspended in it.
SetProtocolReply ==
    \A k \in Conns :
        LET r == reader[k]
        IN  (r.msg \in 112 .. 127) =>
                /\ r.replies \in {<<>>, <<0>>}
                /\ r.pc = "recv" => r.replies = <<0>>
                /\ r.pc = "send" => r.replies = <<>> /\ r.pend = 0
                /\ r.pc \in {"recv", "send"}

\* a reader has answered SET_PROTOCOL(Report) and waits for the next message
SetProtocolAnswered ==
    \E k \in Conns :
        /\ reader[k].msg = 113
        /\ reader[k].pc = "recv"
        /\ reader[k].replies = <<0>>

\* the bytes the reader has to write for a message, by the table of replies
RequiredReply(b) ==
    CASE MsgType(b) = 112 -> <<0>>
      [] MsgType(b) = 80 -> <<0>>
      [] MsgType(b) = 96 -> <<1>>
      [] OTHER -> <<>>

\* C2: for every control message read, whatever was read before it, the
\* bytes written in reply are those of its type alone: 0x00 for SET_PROTOCOL
\* and SET_REPORT, 0x01 for GET_PROTOCOL (also after SET_PROTOCOL selected
\* Boot), nothing for HID_CONTROL and the other types; and wherever a
\* reader waits for a message on an open channel while the connection is
\* up, each message it can read then, if its reply does not fail, leaves
\* the reader running: suspended in the reply's write or in the next read.
ControlReplies ==
    \A k \in Conns :
        /\ reader[k].msg # -1 =>
              /\ reader[k].pc = "recv" => reader[k].replies = RequiredReply(reader[k].msg)
              /\ reader[k].pc = "send" =>
                    /\ reader[k].replies = <<>>
                    /\ <<reader[k].pend>> = RequiredReply(reader[k].msg)
        /\ (/\ reader[k].pc = "recv" /\ ~reader[k].cancel
            /\ <<reader[k].sock, "control">> \notin closed
            /\ connected) =>
              \A b \in CtlBytes, res \in {"sent", "blocked"} :
                  LET after == Handle(reader[k], [b |-> b, res |-> res], <<>>, FALSE).rd
                  IN  /\ after.pc \in {"recv", "send"}
                      /\ after.msg = b
                      /\ after.sock = reader[k].sock

\* a reader has answered GET_PROTOCOL with 0x01 after the host selected the
\* Boot protocol
GetProtocolAfterBoot ==
    \E k \in Conns :
        /\ reader[k].proto = 0
        /\ reader[k].msg = 96
        /\ reader[k].pc = "recv"
        /\ reader[k].replies = <<1>>

\* the keyboard frame with the given modifier byte and first key code
PressFrame(modifier, code) == <<161, 1, modifier, 0, code, 0, 0, 0, 0, 0>>
AllZeroFrame == <<161, 1, 0, 0, 0, 0, 0, 0, 0, 0>>

RECURSIVE OrOfModifiers(_)
OrOfModifiers(modifiers) ==
    IF modifiers = <<>> THEN 0
    ELSE BitOr(MODIFIER_MAP[Lower(Head(modifiers))], OrOfModifiers(Tail(modifiers)))

\* the modifier byte and key code a successful keystroke or combo presses
PressOf(o) ==
    IF o.kind = "keystroke"
    THEN LET key == o.args[1]
         IN  IF StrLen(key) = 1
             THEN <<char_to_hid(key).mod, char_to_hid(key).code>>
             ELSE <<0, key_name_to_hid(key).code>>
    ELSE LET key == o.args[2]
             named == OrOfModifiers(o.args[1])
         IN  IF key \in DOMAIN SHIFT_CHARS
             THEN <<BitOr(named, 2), KEY_CODES[SHIFT_CHARS[key]]>>
             ELSE <<named, key_name_to_hid(key).code>>

\* C3: a send_keystroke or send_key_combo that has returned normally wrote
\* exactly two frames: the press frame with the codec's modifier byte and
\* key code (for a combo the OR of the named modifiers, with LEFT_SHIFT for
\* a shifted key and the base key's code; for "Enter" 0x00 and 0x28), then
\* the all-zero release frame.
KeystrokeFrames ==
    \A s \in Slots :
        LET o == ops[s]
        IN  (o.kind \in {"keystroke", "combo"} /\ o.pc = "done" /\ o.err = "") =>
                /\ Len(o.frames) = 2
                /\ o.frames[1] = PressFrame(PressOf(o)[1], PressOf(o)[2])
                /\ o.frames[2] = AllZeroFrame
                /\ (o.kind = "keystroke" /\ o.args = <<"Enter">>) =>
                       o.frames[1] = <<161, 1, 0, 0, 40, 0, 0, 0, 0, 0>>
                /\ (o.kind = "combo" /\ o.args = <<<<"alt">>, "!">>) =>
                       o.frames[1] = <<161, 1, 6, 0, 30, 0, 0, 0, 0, 0>>

\* the combo alt+"!" has returned normally
ShiftedComboSent ==
    \E s \in Slots :
        /\ ops[s].kind = "combo"
        /\ ops[s].args = <<<<"alt">>, "!">>
        /\ ops[s].pc = "done"
        /\ ops[s].err = ""
        /\ Len(ops[s].frames) = 2

\* C4: a send_text that has returned normally wrote exactly 2 * len(text)
\* frames: for each character in order its press frame, then the all-zero
\* release frame (for "hi": codes 0x0B and 0x0C with modifier 0x00); for
\* the empty text it wrote nothing.
TextFrames ==
    \A s \in Slots :
        LET o == ops[s]
            text == o.args[1]
        IN  (o.kind = "text" /\ o.pc = "done" /\ o.err = "") =>
                /\ Len(o.frames) = 2 * Len(text)
                /\ \A j \in 1 .. Len(text) :
                       /\ o.frames[2 * j - 1] =
                              PressFrame(char_to_hid(text[j]).mod, char_to_hid(text[j]).code)
                       /\ o.frames[2 * j] = AllZeroFrame
                /\ text = <<"h", "i">> =>
                       o.frames = << <<161, 1, 0, 0, 11, 0, 0, 0, 0, 0>>, AllZeroFrame,
                                     <<161, 1, 0, 0, 12, 0, 0, 0, 0, 0>>, AllZeroFrame >>
                /\ text = <<>> => o.frames = <<>>

\* send_text("hi") has returned normally after its four writes
HiSent ==
    \E s \in Slots :
        /\ ops[s].kind = "text"
        /\ ops[s].args = << <<"h", "i">> >>
        /\ ops[s].pc = "done"
        /\ ops[s].err = ""
        /\ Len(ops[s].frames) = 4

IsKeyboardFrame(f) ==
    /\ Len(f) = 10
    /\ f[1] = 161 /\ f[2] = 1
    /\ f[3] \in 0 .. 255 /\ f[5] \in 0 .. 255
    /\ f[4] = 0
    /\ \A j \in 6 .. 10 : f[j] = 0

IsMouseFrame(f) ==
    /\ Len(f) = 6
    /\ f[1] = 161 /\ f[2] = 2
    /\ \A j \in 3 .. 6 : f[j] \in 0 .. 255

\* C5: every frame written on the interrupt channel, and every frame handed
\* to send(), is a 10-byte keyboard frame with the reserved byte and the
\* key slots 2 to 6 zero, or a 6-byte mouse frame.
FrameShapes ==
    \A s \in Slots :
        /\ \A j \in 1 .. Len(ops[s].frames) :
               IsKeyboardFrame(ops[s].frames[j]) \/ IsMouseFrame(ops[s].frames[j])
        /\ ops[s].pc = "write" =>
               IsKeyboardFrame(ops[s].pend) \/ IsMouseFrame(ops[s].pend)

\* move(200, -200) has returned after writing its frame, the deltas clamped
\* to 127 and -127
MouseFrameWritten ==
    \E s \in Slots :
        /\ ops[s].kind = "move"
        /\ ops[s].pc = "done"
        /\ ops[s].frames = << <<161, 2, 0, 127, 129, 0>> >>

\* C6: when the write of a frame fails, the operation that issued it has
\* raised BtHidError, is_connected is false and /health reports
\* bt_hid_connected false, the frame is not among the frames written and is
\* not pending any more; and an operation that has raised or returned
\* writes nothing further.
WriteFailure ==
    [][\A s \in Slots :
        /\ (ops[s].pc = "write" /\ ops'[s] # ops[s] /\ ops'[s].frames = ops[s].frames) =>
               /\ ops'[s].pc = "done"
               /\ ops'[s].err = "BtHidError"
               /\ ops'[s].pend = <<>>
               /\ ~is_connected'
               /\ ~bt_hid_connected'
        /\ (ops[s].pc = "done" /\ ops'[s] # ops[s]) => ops'[s] = NoOp]_vars

\* a keystroke's release write failed after its press was written, on a
\* server that had a peer
ReleaseWriteFailed ==
    \E s \in Slots :
        /\ ops[s].kind = "keystroke"
        /\ ops[s].pc = "done"
        /\ ops[s].err = "BtHidError"
        /\ Len(ops[s].frames) = 1
        /\ interrupt_client # 0
        /\ ~is_connected

\* C7: stop() has closed no socket while a reader task it cancelled is
\* still alive: after a stop() that closed a socket, every reader with a
\* cancellation requested has terminated.
StopAwaitsReader ==
    (lastStop.run > 0 /\ lastStop.log # <<>>) =>
        \A k \in Conns : reader[k].cancel => reader[k].pc \in {"none", "done"}

\* a step of stop(): the steps that record a call of stop().  Every other
\* step of an operation resets the record or leaves it as it is.
StopStep == lastStop'.run >= 1 /\ lastStop' # lastStop

\* C8: stop() never raises, in whatever state it is called and whichever
\* close() calls fail; and a stop() that follows a stop() with nothing in
\* between changes no state of the server, its tasks or its sockets.
StopNeverRaises ==
    [][StopStep =>
            /\ ~lastStop'.raised
            /\ lastStop.run >= 1 =>
                   UNCHANGED <<srv, closed, waiter, nconn, reader, ops>>]_vars

\* stop() was called twice in a row on a server that had a peer; neither
\* call raised
StoppedTwice ==
    /\ lastStop.run = 2
    /\ ~lastStop.raised
    /\ closed # {}

\* the place of a handle in the order of closing
CloseRank(h) ==
    CASE h = "interrupt_client" -> 1
      [] h = "control_client" -> 2
      [] h = "interrupt_sock" -> 3
      [] h = "control_sock" -> 4

\* C9: the close() calls of a stop() are made in the order interrupt peer,
\* control peer, interrupt listener, control listener, one for each handle
\* that was set and none for the others, whichever of them fail; after it
\* the four handles are cleared and is_connected is false.
StopClosesInOrder ==
    [][StopStep =>
            LET log == lastStop'.log
            IN  /\ \A i, j \in 1 .. Len(log) :
                       i < j => CloseRank(log[i]) < CloseRank(log[j])
                /\ (\E i \in 1 .. Len(log) : log[i] = "interrupt_client") <=> interrupt_client # 0
                /\ (\E i \in 1 .. Len(log) : log[i] = "control_client") <=> control_client # 0
                /\ (\E i \in 1 .. Len(log) : log[i] = "interrupt_sock") <=> interrupt_sock # "none"
                /\ (\E i \in 1 .. Len(log) : log[i] = "control_sock") <=> control_sock # "none"
                /\ interrupt_client' = 0
                /\ control_client' = 0
                /\ interrupt_sock' = "none"
                /\ control_sock' = "none"
                /\ ~is_connected']_vars

\* a stop() has closed all four handles
AllFourClosed ==
    /\ lastStop.log = <<"interrupt_client", "control_client", "interrupt_sock", "control_sock">>
    /\ interrupt_client = 0 /\ control_client = 0
    /\ interrupt_sock = "none" /\ control_sock = "none"
    /\ ~is_connected

\* C10: the accepts of a wait_for_connection() call complete in the order
\* control, interrupt; is_connected turns true, and a reader task is
\* created, only in the step that completes the second accept; and each
\* normal return of wait_for_connection() comes with exactly one
\* create_task.
AcceptOrder ==
    [][/\ \A k \in Conns :
            /\ accepted'[k] \in {<<>>, <<"control">>, <<"control", "interrupt">>}
            /\ (reader'[k].pc = "created" /\ reader[k].pc # "created") =>
                   /\ accepted[k] = <<"control">>
                   /\ accepted'[k] = <<"control", "interrupt">>
                   /\ nTasks' = nTasks + 1
       /\ (is_connected' /\ ~is_connected) =>
              \E k \in Conns : /\ accepted[k] = <<"control">>
                               /\ accepted'[k] = <<"control", "interrupt">>
       /\ nTasks' # nTasks =>
              /\ nTasks' = nTasks + 1
              /\ nWaitOk' = nWaitOk + 1
              /\ \E k \in Conns : /\ reader'[k].pc = "created"
                                  /\ accepted'[k] # accepted[k]
       /\ nWaitOk' # nWaitOk => nTasks' = nTasks + 1
       /\ (waitOut' = "ok" /\ waitOut # "ok") => nWaitOk' = nWaitOk + 1]_vars

\* a wait_for_connection() has returned normally after both accepts
PeerConnected ==
    /\ waitOut = "ok"
    /\ accepted[1] = <<"control", "interrupt">>
    /\ nTasks = 1
    /\ nWaitOk = 1
    /\ is_connected

\* the reader tasks that are alive, and the accepted sockets of a channel
\* that no close() was called on
AliveReaders == {k \in Conns : reader[k].pc \notin {"none", "done"}}
OpenSockets(channel) ==
    {k \in Conns : /\ \E i \in 1 .. Len(accepted[k]) : accepted[k][i] = channel
                   /\ <<k, channel>> \notin closed}

\* C11: at most one peer is served at a time: at most one reader task is
\* alive, and at most one accepted control socket and one accepted
\* interrupt socket are open, also when wait_for_connection() is called
\* again while a peer is connected.
OnePeerServed ==
    /\ Cardinality(AliveReaders) <= 1
    /\ Cardinality(OpenSockets("control")) <= 1
    /\ Cardinality(OpenSockets("interrupt")) <= 1

\* C12: whenever a wait_for_connection() call completes, on the first
\* connection or a later one, the tracked mouse button bitmask is 0.
BitmaskZeroAtConnect ==
    [][nWaitOk' = nWaitOk + 1 => mouse_buttons' = 0]_vars

\* C13: a transport error on either channel ends the connection: after a
\* failed write on the interrupt channel, and after a read error or a
\* zero-length read on the control channel, is_connected is false.
TransportErrorEndsConnection ==
    [][/\ \A s \in Slots : WriteFail(s) => ~is_connected'
       /\ \A k \in Conns : ReaderRecvEnd(k) => ~is_connected']_vars

\* C14: no reader task ends by raising, whatever it reads; and every reader
\* task that is alive when stop() has run terminates eventually.
ReadersEndAfterStop ==
    /\ [](\A k \in Conns : reader[k].out # "raised")
    /\ \A k \in Conns :
           (lastStop.run > 0 /\ reader[k].pc \notin {"none", "done"})
               ~> (reader[k].pc \in {"none", "done"})

\* the bit of a mouse button, by its name in lower case
ButtonBit(name) ==
    CASE name = "left" -> 1
      [] name = "right" -> 2
      [] name = "middle" -> 4

\* C15: a click of the left, right or middle button that has returned
\* normally wrote exactly two mouse frames with x, y and wheel zero, the
\* first with the buttons byte equal to the button's bit, the second with
\* the buttons byte 0x00, and the tracked button state is 0 when it has
\* returned.
ClickFrames ==
    \A s \in Slots :
        LET o == ops[s]
        IN  (o.kind = "click" /\ o.pc = "done" /\ o.err = "") =>
                /\ o.frames = << <<161, 2, ButtonBit(Lower(o.args[1])), 0, 0, 0>>,
                                 <<161, 2, 0, 0, 0, 0>> >>
                /\ mouse_buttons = 0

\* C16: a move() hands to send() one mouse frame whose buttons byte is the
\* tracked button state at the call, with the bit of a click that is
\* between its press and its release; no step of a move() changes the
\* tracked state or writes another frame, and a move() that has returned
\* normally wrote exactly one frame.
MoveCarriesButtons ==
    [][\A s \in Slots :
        /\ (ops[s].kind = "none" /\ ops'[s].kind = "move") =>
               /\ mouse_buttons' = mouse_buttons
               /\ ops'[s].frames = <<>>
               /\ IF interrupt_client = 0
                  THEN ops'[s].pc = "done" /\ ops'[s].err = "BtHidError"
                  ELSE /\ ops'[s].pc = "write"
                       /\ Len(ops'[s].pend) = 6
                       /\ ops'[s].pend[3] = mouse_buttons
                       /\ \A t \in Slots :
                              (ops[t].kind = "click" /\ ops[t].pc = "sleep") =>
                                  BitAnd(ops'[s].pend[3], ops[t].btn) = ops[t].btn
        /\ (ops[s].kind = "move" /\ ops'[s] # ops[s]) =>
               /\ mouse_buttons' = mouse_buttons
               /\ ops'[s].kind = "move" =>
                      ops'[s].frames \in {ops[s].frames, <<ops[s].pend>>}
        /\ (ops'[s].kind = "move" /\ ops'[s].pc = "done" /\ ops'[s].err = "") =>
               Len(ops'[s].frames) = 1]_vars

\* a move(10, -5) called during a click of the left button has written its
\* frame with the left bit while the click is still before its release
MovedWhileHeld ==
    /\ ops[1].kind = "click"
    /\ ops[1].pc = "sleep"
    /\ ops[1].frames = << <<161, 2, 1, 0, 0, 0>> >>
    /\ ops[2].kind = "move"
    /\ ops[2].pc = "done"
    /\ ops[2].frames = << <<161, 2, 1, 10, 251, 0>> >>

\* C17: in every frame a scroll() hands to send() or has written only the
\* wheel field is set: the buttons, x and y bytes are zero, also while a
\* click() is between its press and its release.
ScrollOnlyWheel ==
    \A s \in Slots :
        ops[s].kind = "scroll" =>
            /\ ops[s].pc = "write" =>
                   ops[s].pend[3] = 0 /\ ops[s].pend[4] = 0 /\ ops[s].pend[5] = 0
            /\ \A j \in 1 .. Len(ops[s].frames) :
                   /\ ops[s].frames[j][3] = 0
                   /\ ops[s].frames[j][4] = 0
                   /\ ops[s].frames[j][5] = 0

\* max(-127, min(127, v)) and its encoding as a signed byte
Saturated(v) == IF v > 127 THEN 127 ELSE IF v < -127 THEN -127 ELSE v
SignedByte(v) == IF v < 0 THEN 256 + v ELSE v

\* what move() and scroll() put in the x, y and wheel bytes
DeltaBytes(o) ==
    IF o.kind = "move"
    THEN <<SignedByte(Saturated(o.args[1])), SignedByte(Saturated(o.args[2])), 0>>
    ELSE <<0, 0, SignedByte(Saturated(o.args[1]))>>

\* C18: the x, y and wheel bytes of every frame of a move(dx, dy) or a
\* scroll(amount) encode max(-127, min(127, v)) as a signed byte, for
\* values inside, at and beyond the range; with a peer the operation is
\* never rejected for its values; move(200, -200) carries 0x7F and 0x81.
ClampedDeltas ==
    \A s \in Slots :
        LET o == ops[s]
        IN  o.kind \in {"move", "scroll"} =>
                /\ o.pc = "write" =>
                       <<o.pend[4], o.pend[5], o.pend[6]>> = DeltaBytes(o)
                /\ \A j \in 1 .. Len(o.frames) :
                       <<o.frames[j][4], o.frames[j][5], o.frames[j][6]>> = DeltaBytes(o)
                /\ o.err \in {"", "BtHidError"}
                /\ (o.pc = "done" /\ o.err = "" /\ o.args = <<200, -200>>) =>
                       o.frames = << <<161, 2, o.frames[1][3], 127, 129, 0>> >>

\* move(-128, 128) has written its frame, saturated to -127 and 127
MoveSaturated ==
    \E s \in Slots :
        /\ ops[s].kind = "move"
        /\ ops[s].args = <<-128, 128>>
        /\ ops[s].pc = "done"
        /\ ops[s].frames = << <<161, 2, 0, 129, 127, 0>> >>

\* a key that is neither a key name nor a character with a mapping, a
\* modifier list with an unknown name, a button that is none of the three
UnknownKey(key) == key \notin (DOMAIN KEY_CODES \cup DOMAIN SHIFT_CHARS)
UnknownModifier(modifiers) ==
    \E i \in 1 .. Len(modifiers) : Lower(modifiers[i]) \notin DOMAIN MODIFIER_MAP
UnknownButton(button) == Lower(button) \notin {"left", "right", "middle"}

\* the request of an operation has an unknown key, modifier or button
InvalidInput(o) ==
    CASE o.kind = "keystroke" -> UnknownKey(o.args[1])
      [] o.kind = "combo" -> UnknownModifier(o.args[1]) \/ UnknownKey(o.args[2])
      [] o.kind = "click" -> UnknownButton(o.args[1])
      [] OTHER -> FALSE

\* C19: a send_keystroke, send_key_combo or click called with an unknown
\* key, modifier or button raises at once: it has written no frame and
\* hands none to send(), and is_connected and the tracked mouse button
\* state are as before the call.
InvalidInputRaises ==
    [][\A s \in Slots :
        (ops[s].kind = "none" /\ InvalidInput(ops'[s])) =>
            /\ ops'[s].pc = "done"
            /\ ops'[s].err = "ValueError"
            /\ ops'[s].frames = <<>>
            /\ ops'[s].pend = <<>>
            /\ is_connected' = is_connected
            /\ mouse_buttons' = mouse_buttons]_vars

\* on a connected server a combo with an unknown modifier has raised
UnknownModifierRaised ==
    \E s \in Slots :
        /\ ops[s].kind = "combo"
        /\ ops[s].args = << <<"banana">>, "c" >>
        /\ ops[s].pc = "done"
        /\ ops[s].err = "ValueError"
        /\ is_connected
        /\ interrupt_client # 0

\* C20: a /bt/keystroke, /bt/key-combo or /bt/mouse/click request with an
\* unknown key, modifier or button is answered with status 400 and leaves
\* the state of the Bluetooth server, its sockets and its tasks as it was;
\* all that follows for it is the response, after which the next request
\* is taken.
BadRequestAnswered ==
    [][\A s \in Slots :
        /\ (ops[s].kind = "none" /\ InvalidInput(ops'[s])) =>
               /\ ops'[s].pc = "done"
               /\ BtStatus(ops'[s]) = 400
               /\ UNCHANGED <<srv, closed, waiter, nconn, reader>>
        /\ (ops[s].pc = "done" /\ InvalidInput(ops[s]) /\ ops'[s] # ops[s]) =>
               /\ ops'[s] = NoOp
               /\ UNCHANGED <<srv, closed, waiter, nconn, reader>>]_vars

\* a keystroke request with the unknown key "enter" was refused with 400,
\* and an Enter keystroke requested after it was served with 200
ServedAfterBadRequest ==
    /\ ops[1].kind = "keystroke"
    /\ ops[1].args = <<"enter">>
    /\ ops[1].pc = "done"
    /\ BtStatus(ops[1]) = 400
    /\ ops[2].kind = "keystroke"
    /\ ops[2].pc = "done"
    /\ Len(ops[2].frames) = 2
    /\ BtStatus(ops[2]) = 200

\* the interrupt channel has failed: a write on the accepted interrupt
\* socket raised, which marked the connection as down
ConnectionDied == ~is_connected /\ interrupt_client # 0

\* C21: a /bt request whose write fails on a connection that has died
\* before is answered with a 5xx status.
DeadConnectionIs5xx ==
    [][\A s \in Slots :
        (ConnectionDied /\ ops[s].pc = "write" /\ ops'[s].pc = "done"
                        /\ ops'[s].err # "") =>
            BtStatus(ops'[s]) \in 500 .. 599]_vars

\* bit b of the byte x is set
HasBit(x, b) == (x \div (2 ^ b)) % 2 = 1

\* a name modifiers_to_bitmask recognises
KnownModifier(name) == Lower(name) \in DOMAIN MODIFIER_MAP

\* C22: for a list of recognised modifier names modifiers_to_bitmask
\* returns the bitwise OR of their bits: a bit is set in the result exactly
\* when it is set for one of the names (0 for the empty list, 0x03 for
\* ["ctrl", "shift"]); for a list with an unrecognised name at any position
\* it raises ValueError and returns nothing.
ModifiersOred ==
    call.fn = "modifiers_to_bitmask" =>
        LET ms == call.arg
        IN  IF \A i \in 1 .. Len(ms) : KnownModifier(ms[i])
            THEN /\ call.out.err = ""
                 /\ call.out.mod \in 0 .. 255
                 /\ \A b \in 0 .. 7 :
                        HasBit(call.out.mod, b) <=>
                            \E i \in 1 .. Len(ms) : HasBit(MODIFIER_MAP[Lower(ms[i])], b)
                 /\ ms = <<>> => call.out.mod = 0
                 /\ ms = <<"ctrl", "shift">> => call.out.mod = 3
            ELSE call.out = Raise("ValueError")

\* modifiers_to_bitmask(["ctrl", "shift"]) has returned 0x03
CtrlShiftOred ==
    /\ call.fn = "modifiers_to_bitmask"
    /\ call.arg = <<"ctrl", "shift">>
    /\ call.out = Hid(3, 0)

\* the letters in alphabetic order
Alphabet ==
    <<"a", "b", "c", "d", "e", "f", "g", "h", "i", "j", "k", "l", "m",
      "n", "o", "p", "q", "r", "s", "t", "u", "v", "w", "x", "y", "z">>
UpperAlphabet ==
    <<"A", "B", "C", "D", "E", "F", "G", "H", "I", "J", "K", "L", "M",
      "N", "O", "P", "Q", "R", "S", "T", "U", "V", "W", "X", "Y", "Z">>

\* C23: char_to_hid of the i-th lowercase letter returns (MODIFIER_NONE,
\* 0x04 + i - 1), and char_to_hid of the i-th uppercase letter returns
\* (MODIFIER_LEFT_SHIFT, the same scan code).
LettersContiguous ==
    call.fn = "char_to_hid" =>
        \A i \in 1 .. 26 :
            /\ call.arg = Alphabet[i] => call.out = Hid(MODIFIER_NONE, 4 + i - 1)
            /\ call.arg = UpperAlphabet[i] =>
                   /\ call.out = Hid(MODIFIER_LEFT_SHIFT, 4 + i - 1)
                   /\ call.out.code = char_to_hid(Alphabet[i]).code

\* char_to_hid("Z") has returned (LEFT_SHIFT, 0x1D)
UpperZMapped ==
    /\ call.fn = "char_to_hid"
    /\ call.arg = "Z"
    /\ call.out = Hid(2, 29)

\* C24: every character of SHIFT_CHARS has its base character in
\* KEY_CODES, and char_to_hid of it returns (MODIFIER_LEFT_SHIFT, the scan
\* code of the base character); char_to_hid of a character that is in
\* neither table raises ValueError.
ShiftedCharsMapped ==
    call.fn = "char_to_hid" =>
        /\ call.arg \in DOMAIN SHIFT_CHARS =>
               /\ SHIFT_CHARS[call.arg] \in DOMAIN KEY_CODES
               /\ call.out = Hid(MODIFIER_LEFT_SHIFT, KEY_CODES[SHIFT_CHARS[call.arg]])
        /\ (call.arg \notin DOMAIN KEY_CODES /\ call.arg \notin DOMAIN SHIFT_CHARS) =>
               call.out = Raise("ValueError")

\* char_to_hid("~") has returned (LEFT_SHIFT, 0x35), the code of the grave
\* accent
TildeMapped ==
    /\ call.fn = "char_to_hid"
    /\ call.arg = "~"
    /\ call.out = Hid(2, 53)

UpperLetters == {UpperAlphabet[i] : i \in 1 .. 26}

\* C25: key_name_to_hid returns the scan code of a name that is in
\* KEY_CODES as it is written ("Enter" gives 0x28); for an uppercase letter
\* it returns the scan code of the lowercase letter; for every other name,
\* such as "enter", "ENTER" and "f1", it raises ValueError.
KeyNameCase ==
    call.fn = "key_name_to_hid" =>
        LET key == call.arg
        IN  /\ key \in DOMAIN KEY_CODES => call.out = Hid(MODIFIER_NONE, KEY_CODES[key])
            /\ key = "Enter" => call.out.code = 40
            /\ \A i \in 1 .. 26 :
                   key = UpperAlphabet[i] =>
                       /\ call.out.err = ""
                       /\ call.out.code = KEY_CODES[Alphabet[i]]
                       /\ call.out = key_name_to_hid(Alphabet[i])
            /\ key \in {"enter", "ENTER", "f1"} => call.out = Raise("ValueError")
            /\ (key \notin DOMAIN KEY_CODES /\ key \notin UpperLetters) =>
                   call.out = Raise("ValueError")

\* key_name_to_hid("A") has returned 0x04, the scan code of "a"
UpperAResolved ==
    /\ call.fn = "key_name_to_hid"
    /\ call.arg = "A"
    /\ call.out.err = ""
    /\ call.out.code = 4

\* C26: register_sdp_profile() returns normally when RegisterProfile
\* succeeds and when the daemon answers AlreadyExists, NotPermitted or
\* "already registered", as it does when the profile is registered
\* already; for every other answer of the daemon it raises BtHidError.
RegistrationIdempotent ==
    LET c == bluez.last
    IN  (c.fn = "register_sdp_profile" /\ c.env = "ok") =>
            /\ c.reply = NoError => c.out = "ok"
            /\ c.reply.name \in {"AlreadyExists", "NotPermitted"} => c.out = "ok"
            /\ (c.reply.name = "Failed" /\ c.reply.text[6] = "Already"
                /\ c.reply.text[7] = "Registered") => c.out = "ok"
            /\ c.reply.name \in {"InvalidArguments", "ServiceUnknown", "AccessDenied"} =>
                   c.out = "BtHidError"
            /\ c.out \in {"ok", "BtHidError"}

\* a second register_sdp_profile() was answered NotPermitted for the
\* profile that is registered already, and returned normally
RegisteredTwice ==
    /\ bluez.registered
    /\ bluez.last.fn = "register_sdp_profile"
    /\ bluez.last.reply.name = "NotPermitted"
    /\ bluez.last.out = "ok"

\* C27: a configure_bluetooth_adapter() that reaches the adapter calls Set
\* four times, for Powered, Discoverable, DiscoverableTimeout (with 0) and
\* Pairable in this order, whichever of the four calls fail, and returns
\* normally; the properties whose Set did not fail are set.
AllPropertiesAttempted ==
    LET c == bluez.last
    IN  (c.fn = "configure_bluetooth_adapter" /\ c.env = "ok") =>
            /\ Len(c.sets) = 4
            /\ <<c.sets[1][1], c.sets[2][1], c.sets[3][1], c.sets[4][1]>> =
                   <<"Powered", "Discoverable", "DiscoverableTimeout", "Pairable">>
            /\ c.sets[3][2].value = 0
            /\ \A i \in {1, 2, 4} : c.sets[i][2].value = 1
            /\ c.out = "ok"
            /\ \A p \in PropertyNames \ c.fails : p \in DOMAIN bluez.adapter

\* configure_bluetooth_adapter() has returned normally after the Set of
\* Powered and of Discoverable failed: Pairable is set, Powered is not
SetsAfterFailure ==
    /\ bluez.last.fn = "configure_bluetooth_adapter"
    /\ bluez.last.fails = {"Powered", "Discoverable"}
    /\ Len(bluez.last.sets) = 4
    /\ bluez.last.out = "ok"
    /\ "Pairable" \in DOMAIN bluez.adapter
    /\ "Powered" \notin DOMAIN bluez.adapter

\* C28: an os.write is done only while the writer is open and only for a
\* report of 8 bytes; a _write_report() called while the writer is not
\* open, or with a report that is not 8 bytes long, raises HidWriteError at
\* once, writes nothing and hands nothing to the executor; when an open()
\* has failed, is_open is false; when a close() or __aexit__ has returned,
\* is_open is false; and a close() of a writer that is not open returns at
\* once and changes nothing.
HidWriterGuards ==
    [][\A t \in HidTasks :
         LET c == hidw.co[t]
             d == hidw'.co[t]
         IN  /\ (c.pc = "idle" /\ d.kind = "write_report"
                 /\ (~is_open \/ Len(d.report) # 8)) =>
                    /\ d.pc = "done"
                    /\ d.out = "HidWriteError"
                    /\ ~d.wrote
                    /\ hidw'.fd = hidw.fd /\ hidw'.osfds = hidw.osfds
             /\ (d.wrote /\ ~c.wrote) =>
                    /\ is_open
                    /\ Len(c.report) = 8
             /\ (c.pc = "open" /\ d.out = "HidWriteError") => ~is_open'
             /\ (d.kind \in {"close", "aexit"} /\ c.pc # "done"
                 /\ d.pc = "done" /\ d.out = "") => ~is_open'
             /\ (c.pc = "idle" /\ d.kind \in {"close", "aexit"} /\ ~is_open) =>
                    /\ d = HidDone([NoHidCall EXCEPT !.kind = d.kind], "")
                    /\ hidw' = [hidw EXCEPT !.co[t] = d]]_vars

\* the control message with first byte b whose reply, if it has one, is
\* written at once
Sent(b) == [b |-> b, res |-> "sent"]

\* an interrupt write of a send operation is in flight
WriteInFlight == \E s \in Slots : ops[s].pc = "write"

\* C29: while an interrupt write is in flight, whether or not it ever
\* completes, a reader that waits for a message on an open control channel
\* can read every control message and write its reply; and a message read
\* meanwhile gets the reply of its type and leaves the write in flight.
ReaderNotStalled ==
    /\ [](\A k \in Conns :
            (/\ WriteInFlight
             /\ reader[k].pc = "recv" /\ ~reader[k].cancel
             /\ <<reader[k].sock, "control">> \notin closed) =>
                \A b \in CtlBytes : ENABLED ReaderRecv(k, <<Sent(b)>>, FALSE))
    /\ [][\A k \in Conns, b \in CtlBytes :
            (WriteInFlight /\ ReaderRecv(k, <<Sent(b)>>, FALSE) /\ connected) =>
                /\ reader'[k].pc = "recv"
                /\ reader'[k].msg = b
                /\ reader'[k].replies = RequiredReply(b)
                /\ ops' = ops]_vars

\* a reader has answered GET_PROTOCOL and waits for the next message while
\* the write of a scroll is in flight
AnsweredDuringWrite ==
    /\ ops[1].kind = "scroll"
    /\ ops[1].pc = "write"
    /\ \E k \in Conns :
           /\ reader[k].pc = "recv"
           /\ reader[k].msg = 96
           /\ reader[k].replies = <<1>>

\* the buttons byte of a mouse frame has the bit btn (1, 2 or 4)
FrameHasButton(frame, btn) == (frame[3] \div btn) % 2 = 1

\* C30: the step of click(b) that sets bit b builds the press frame, and
\* the step that clears it builds the release frame, whatever other mouse
\* operations are in progress: every press frame of a click(b), written or
\* being written, has bit b set, and every release frame has it clear.
ClickFrameAtomic ==
    \A s \in Slots :
        LET o == ops[s]
        IN  (o.kind = "click" /\ o.btn # 0) =>
                /\ (o.pc = "write" /\ o.phase = 1) => FrameHasButton(o.pend, o.btn)
                /\ (o.pc = "write" /\ o.phase = 2) => ~FrameHasButton(o.pend, o.btn)
                /\ Len(o.frames) >= 1 => FrameHasButton(o.frames[1], o.btn)
                /\ Len(o.frames) >= 2 => ~FrameHasButton(o.frames[2], o.btn)
                /\ Len(o.frames) <= 2

\* two clicks of the left button overlapped: the second has written its
\* press frame while the first has written its release frame
ClicksOverlapped ==
    /\ ops[1].kind = "click" /\ ops[1].btn = 1
    /\ ops[1].pc = "done" /\ ops[1].err = ""
    /\ ops[1].frames = << <<161, 2, 1, 0, 0, 0>>, <<161, 2, 0, 0, 0, 0>> >>
    /\ ops[2].kind = "click" /\ ops[2].btn = 1
    /\ ops[2].pc = "sleep"
    /\ ops[2].frames = << <<161, 2, 1, 0, 0, 0>> >>

\* C32: a wait_for_connection() called before start() or after stop()
\* raises BtHidError and starts no accept; stop() leaves no listening and
\* no interrupt peer socket; and every send operation called while the
\* server holds no interrupt peer socket raises BtHidError at once, has
\* written nothing, hands nothing to send(), and leaves is_connected and
\* the tracked mouse button state as they were.
OutOfLifecycleNoEffect ==
    [][/\ (wait_for_connection
           /\ (lastStop.run > 0 \/ (control_sock = "none" /\ interrupt_sock = "none"))) =>
              /\ waitOut' = "BtHidError"
              /\ waiter' = IdleWaiter
              /\ nconn' = nconn
              /\ accepted' = accepted
       /\ lastStop'.run > 0 => (control_sock' = "none" /\ interrupt_sock' = "none"
                                /\ interrupt_client' = 0)
       /\ \A s \in Slots :
            (ops[s].kind = "none" /\ ops'[s].kind # "none" /\ interrupt_client = 0) =>
                /\ ops'[s].pc = "done"
                /\ ops'[s].err = "BtHidError"
                /\ ops'[s].frames = <<>>
                /\ ops'[s].pend = <<>>
                /\ is_connected' = is_connected
                /\ mouse_buttons' = mouse_buttons]_vars

\* C33: while the server is stopped (stop() has returned and no start()
\* has been called since, so that no listening socket is held),
\* is_connected is false, no peer socket is held and no reader task is
\* referenced -- also when an accept of a wait_for_connection() that was
\* pending at the stop() returns afterwards.
StoppedStaysDown ==
    (control_sock = "none" /\ interrupt_sock = "none") =>
        /\ ~is_connected
        /\ control_client = 0
        /\ interrupt_client = 0
        /\ control_task = 0

\* C34: whenever is_connected is true, the control and the interrupt peer
\* socket are both present and come from the same wait_for_connection()
\* call.
ChannelsPaired ==
    is_connected =>
        /\ control_client # 0
        /\ interrupt_client # 0
        /\ control_client = interrupt_client

\* C35: a start() that raises BtHidError leaves the server not started: it
\* holds no socket that listens, and the next wait_for_connection() would
\* raise BtHidError (one of the two listening handles is None) instead of
\* starting an accept.
FailedStartNotStarted ==
    [][\A outcome \in StartOutcomes \ {"ok"} :
          start(outcome) =>
              /\ control_sock' # "listening"
              /\ interrupt_sock' # "listening"
              /\ (control_sock' = "none" \/ interrupt_sock' = "none")]_vars

\* C36: a send operation hands a frame to send() on the interrupt channel
\* only while is_connected is true; in particular, after a failed write
\* no later operation starts a write until a new connection is accepted.
NoWriteWhileDown ==
    [][\A s \in Slots :
          (ops[s].pc # "write" /\ ops'[s].pc = "write") => is_connected]_vars

\* C37: whenever no click() is in progress the tracked button bitmask is 0,
\* and every frame that a move() or a scroll() builds then carries the
\* buttons byte 0x00 -- also after a click whose write failed.
NoClickNoButtons ==
    /\ (\A s \in Slots : ops[s].kind # "click") => mouse_buttons = 0
    /\ \A s \in Slots :
         (/\ ops[s].kind \in {"move", "scroll"}
          /\ ops[s].pc = "write"
          /\ \A t \in Slots : ops[t].kind # "click") => ops[s].pend[3] = 0

\* the position of the first character of text that char_to_hid rejects,
\* counted from 1; 0 when every character is mapped
RECURSIVE FirstUnmapped(_, _)
FirstUnmapped(text, j) ==
    IF j > Len(text) THEN 0
    ELSE IF char_to_hid(text[j]).err # "" THEN j
    ELSE FirstUnmapped(text, j + 1)

\* C38: send_text validates character by character: for a text whose first
\* unmapped character has index k (from 0), the call never writes more
\* than 2k frames and never starts a frame for that character or a later
\* one, it does not return normally, and when it raises ValueError it has
\* written exactly the 2k press and release frames of the k characters
\* before it.
TextStopsAtUnmapped ==
    \A s \in Slots :
        LET o == ops[s]
            text == o.args[1]
            k == FirstUnmapped(text, 1) - 1
        IN  (o.kind = "text" /\ k >= 0) =>
                /\ Len(o.frames) <= 2 * k
                /\ o.i <= k + 1
                /\ o.pc \in {"write", "sleep", "gap"} => o.i <= k
                /\ o.pc = "done" => o.err \in {"ValueError", "BtHidError"}
                /\ o.err = "ValueError" =>
                       /\ Len(o.frames) = 2 * k
                       /\ \A j \in 1 .. k :
                              /\ o.frames[2 * j - 1] =
                                     PressFrame(char_to_hid(text[j]).mod,
                                                char_to_hid(text[j]).code)
                              /\ o.frames[2 * j] = AllZeroFrame

\* send_text("h\t") has raised ValueError after the two frames of "h"
TabAfterH ==
    \E s \in Slots :
        /\ ops[s].kind = "text"
        /\ ops[s].args = << <<"h", "\t">> >>
        /\ ops[s].pc = "done"
        /\ ops[s].err = "ValueError"
        /\ ops[s].frames = << PressFrame(0, 11), AllZeroFrame >>

Taps == {"keystroke", "combo", "text"}

\* C39: while no interrupt write fails and stop() is not called, every
\* press frame that a tap has written (its n-th frame, the call then being
\* in its hold sleep) is eventually followed by the all-zero release frame
\* as the next frame of the same call, also when other send operations are
\* in progress.
PressThenRelease ==
    \A s \in Slots, n \in 1 .. 2 * MaxTextLen :
        (/\ ops[s].kind \in Taps
         /\ ops[s].pc = "sleep"
         /\ Len(ops[s].frames) = n
         /\ ops[s].frames[n] # AllZeroFrame)
        ~> (/\ ops[s].kind \in Taps
            /\ Len(ops[s].frames) = n + 1
            /\ ops[s].frames[n + 1] = AllZeroFrame)

\* a keystroke has written its press and its release frame while a move()
\* in the other slot is waiting for its write
TapEndedBesideMove ==
    /\ ops[1].kind = "keystroke"
    /\ ops[1].frames = << PressFrame(2, 4), AllZeroFrame >>
    /\ ops[2].kind = "move"
    /\ ops[2].pc = "write"

\* a step of reader task k itself: its state changes otherwise than by the
\* cancellation that stop() requests
ReaderStep(k) ==
    /\ reader[k].pc \in {"created", "recv", "send"}
    /\ reader'[k] # reader[k]
    /\ reader'[k] # Cancel(reader[k])

\* C40: a step of the reader task changes neither is_connected nor a socket
\* handle nor the button bitmask nor a send operation (it adds no frame to
\* the interrupt channel), and it writes to the socket it took from
\* _control_client when it started; a step of a send operation changes no
\* reader (it adds no byte to the control channel) and no socket handle
\* and, when it starts a write, uses the socket in _interrupt_client.
ChannelsSeparate ==
    [][/\ \A k \in Conns :
            ReaderStep(k) =>
                /\ is_connected' = is_connected
                /\ UNCHANGED <<control_sock, interrupt_sock, control_client,
                               interrupt_client, control_task, mouse_buttons>>
                /\ ops' = ops
                /\ closed' = closed
                /\ reader[k].pc = "created" /\ reader'[k].sock # 0 =>
                       reader'[k].sock = control_client
                /\ reader[k].pc # "created" /\ reader'[k].pc # "done" =>
                       reader'[k].sock = reader[k].sock
       /\ \A s \in Slots :
            ops'[s] # ops[s] =>
                /\ reader' = reader
                /\ UNCHANGED <<control_sock, interrupt_sock, control_client,
                               interrupt_client, control_task>>
                /\ closed' = closed
                /\ ops[s].pc # "write" /\ ops'[s].pc = "write" =>
                       ops'[s].sock = interrupt_client /\ interrupt_client # 0]_vars

\* the reader has written the reply 0x00 on the control socket and waits
\* for the next message, a scroll(-3) has written its frame on the
\* interrupt socket, and the connection is up with both handles and no
\* button held
RepliedBesideScroll ==
    /\ reader[1].pc = "recv"
    /\ reader[1].replies = <<0>>
    /\ reader[1].sock = control_client
    /\ ops[1].kind = "scroll"
    /\ ops[1].frames = << MouseReport(0, 0, 0, -3) >>
    /\ is_connected
    /\ control_client = 1 /\ interrupt_client = 1
    /\ mouse_buttons = 0

\* the Bluetooth initialisation of the bridge did not get through: it was
\* not enabled, or the last BlueZ helper called raised, or start() left a
\* handle that does not listen
InitFailed ==
    \/ ~app.enable_bt_hid
    \/ bluez.last.out # "ok"
    \/ control_sock # "listening"
    \/ interrupt_sock # "listening"

\* C31: the Bluetooth part of the lifespan always brings the bridge to
\* serving, whether or not the USB writers were opened; when the Bluetooth
\* initialisation failed (in configure_bluetooth_adapter, in
\* register_sdp_profile or in start()) or Bluetooth was not enabled, it
\* serves with app.state.bt_hid None; and while the bridge serves with no
\* Bluetooth server, no step starts or continues an operation of a server
\* or changes a handle, flag or task of one, every response to a /bt
\* request has status 503, and every response to /health has status 200
\* with bt_hid_connected false.
BridgeWithoutBluetooth ==
    [][/\ (app.pc = "mouse" /\ app' # app) =>
              /\ app'.pc = "serving"
              /\ InitFailed' => app'.bt_hid = "none"
       /\ (app.pc = "serving" /\ app.bt_hid = "none") =>
              /\ ops' = ops /\ srv' = srv /\ reader' = reader /\ waiter' = waiter
              /\ (app'.resp # app.resp /\ app'.resp.path \in BtPaths) =>
                     app'.resp.status = 503
              /\ (app'.resp # app.resp /\ app'.resp.path = "/health") =>
                     /\ app'.resp.status = 200
                     /\ ~app'.resp.bt_hid_connected]_vars

\* the bridge serves after register_sdp_profile() raised BtHidError on an
\* InvalidArguments answer, and has answered POST /bt/keystroke with 503
ServesAfterFailedRegistration ==
    /\ app.pc = "serving"
    /\ app.enable_bt_hid
    /\ bluez.last.fn = "register_sdp_profile"
    /\ bluez.last.reply.name = "InvalidArguments"
    /\ bluez.last.out = "BtHidError"
    /\ app.bt_hid = "none"
    /\ app.resp = [NoResponse EXCEPT !.path = "/bt/keystroke", !.status = 503]

=============================================================================
